---- MODULE Spec2Model ----
(***************************************************************************)
(* Model of the PCFG password-structure pipeline:                          *)
(*   src/src/utils.py          classify_run, tokenize, parse_template       *)
(*   src/pcfg_model.py         PCFGLite (fit_list, trim_slot_counts,        *)
(*                             template_prob, slot_token_prob, save, load)  *)
(*   src/password_generator.py PasswordGenerator (generate_deterministic,   *)
(*                             generate_stochastic),                        *)
(*                             combine_and_dedupe_candidates                *)
(*                                                                         *)
(* A Python str is a sequence of characters; a character is a one-element  *)
(* name ("a", "1", "!", ...).  Two characters outside ASCII are named by   *)
(* their code point: "U+00E9" (e acute, a letter) and "U+00B2"             *)
(* (superscript two, a digit that is not a decimal).                       *)
(***************************************************************************)
EXTENDS Integers, Sequences, FiniteSets, TLC

VARIABLES
    vocab,            \* utils._ENGLISH_VOCAB once loaded (empty: NLTK unavailable)
    vocab_load,       \* codec: what load_english_vocab meets: "words", "ImportError", "LookupError"
    password,         \* codec: the string handed to tokenize
    do_leet_arg,      \* codec: tokenize's do_leet argument
    use_vocab_arg,    \* codec: tokenize's use_vocab argument
    tok_result,       \* codec: what tokenize returned
    template_arg,     \* codec: the string handed to parse_template
    slots_result,     \* codec: what parse_template returned for template_arg
    codec_pc,         \* codec: "start", "tokenized", "parsed", "parsed_given"
    template_counts,  \* PCFGLite.template_counts: Counter, in insertion order
    slot_counts,      \* PCFGLite.slot_counts: slot type -> Counter
    total_templates,  \* PCFGLite.total_templates
    alpha,            \* PCFGLite.alpha, a positive rational <<numerator, denominator>>
    do_leet,          \* PCFGLite.do_leet
    ops_done,         \* number of fit/trim calls made on the model so far
    first_call,       \* the arguments of the first call made on the fresh model
    trim_top_ns,      \* the trim_top_n arguments the fit calls on the model were given
    last_trim,        \* when the last call was trim_slot_counts: its top_n and the model before it
    disk,             \* the model file: what pickle.load would read at the path
    load_state_only,  \* PCFGLite.load's state_only argument
    load_result,      \* what PCFGLite.load did: the model returned or the exception
    persist_pc,       \* "ready", "loaded"
    snap,             \* the last snapshot taken of the model: its arguments and what it returned
    top_words,        \* PasswordGenerator.top_words
    top_digits,       \* PasswordGenerator.top_digits
    top_frags,        \* PasswordGenerator.top_frags
    count_map,        \* PasswordGenerator.count_map: <<slot type, token>> -> count
    gen_call,         \* the arguments of the generate_* call in progress
    det_out,          \* the pairs generate_deterministic yields, in order
    det_steps,        \* per slot processed: the sorted new_beam and the beam kept from it
    sto_results,      \* generate_stochastic's results dict, in insertion order
    sto_drawn,        \* generate_stochastic: samples drawn so far
    sto_history,      \* generate_stochastic: the (candidate, score) of each sample drawn
    est_out,          \* what estimate_template_length returned: <<min, max>>
    sto_out,          \* the list generate_stochastic returns
    gen_pc,           \* "ready", "det_done", "sampling", "sto_done"
    comb_inputs,      \* combiner: the input files, each its lines or missing
    comb_out,         \* combiner: the lines written to the output file
    comb_count,       \* combiner: the count returned
    comb_prev,        \* combiner: the output of the previous combine, if any
    comb_pc,          \* "ready", "combined", "recombined"
    crack_env,        \* cracker: the target file and the libraries the workers can import
    crack_call,       \* cracker: the arguments of the crack_file_fast call
    chunks,           \* cracker: the password slices, one per future
    fut_state,        \* cracker: per future "pending", "running", "finished", "cancelled", "failed"
    fut_seen,         \* cracker: the futures as_completed has yielded
    total_attempts,   \* cracker: crack_file_fast's total_attempts
    found_pw,         \* cracker: crack_file_fast's found
    crack_ret,        \* cracker: what crack_file_fast returned, elapsed time left out
    crack_pc          \* "ready", "looping", "closing", "returned"

codecVars == <<vocab_load, password, do_leet_arg, use_vocab_arg, tok_result, template_arg, slots_result,
               codec_pc>>
pcfgVars == <<template_counts, slot_counts, total_templates, alpha, do_leet, ops_done, first_call,
              trim_top_ns, last_trim>>
persistVars == <<disk, load_state_only, load_result, persist_pc, snap>>
genVars == <<top_words, top_digits, top_frags, count_map, gen_call, det_out, det_steps,
             sto_results, sto_drawn, sto_history, est_out, sto_out, gen_pc>>
combVars == <<comb_inputs, comb_out, comb_count, comb_prev, comb_pc>>
crackVars == <<crack_env, crack_call, chunks, fut_state, fut_seen, total_attempts, found_pw,
               crack_ret, crack_pc>>

(***************************************************************************)
(* Characters and the str methods the code uses.                           *)
(***************************************************************************)
UpperSeq == <<"A","B","C","D","E","F","G","H","I","J","K","L","M",
              "N","O","P","Q","R","S","T","U","V","W","X","Y","Z">>
LowerSeq == <<"a","b","c","d","e","f","g","h","i","j","k","l","m",
              "n","o","p","q","r","s","t","u","v","w","x","y","z">>
DigitSeq == <<"0","1","2","3","4","5","6","7","8","9">>

Range(s) == {s[i] : i \in DOMAIN s}

IndexOf(s, c) == CHOOSE i \in DOMAIN s : s[i] = c

AsciiUpper == Range(UpperSeq)
AsciiLower == Range(LowerSeq)
AsciiLetters == AsciiUpper \cup AsciiLower
AsciiDigits == Range(DigitSeq)

\* Code point of a character: Python compares str values code point by code point.
Ord(c) ==
    IF c \in AsciiUpper THEN 64 + IndexOf(UpperSeq, c)
    ELSE IF c \in AsciiLower THEN 96 + IndexOf(LowerSeq, c)
    ELSE IF c \in AsciiDigits THEN 47 + IndexOf(DigitSeq, c)
    ELSE CASE c = "\t" -> 9
           [] c = " " -> 32
           [] c = "!" -> 33
           [] c = "#" -> 35
           [] c = "$" -> 36
           [] c = "%" -> 37
           [] c = "&" -> 38
           [] c = "@" -> 64
           [] c = "|" -> 124
           [] c = "U+00B2" -> 178
           [] c = "U+00E9" -> 233

\* str.isalpha / str.isdigit / str.isspace on one character.
IsAlphaCh(c) == c \in AsciiLetters \cup {"U+00E9"}
IsDigitCh(c) == c \in AsciiDigits \cup {"U+00B2"}
IsSpaceCh(c) == c \in {" ", "\t"}

\* str.isdigit / str.isalpha: every character qualifies and there is at least one.
IsDigitStr(s) == Len(s) > 0 /\ \A i \in DOMAIN s : IsDigitCh(s[i])
IsAlphaStr(s) == Len(s) > 0 /\ \A i \in DOMAIN s : IsAlphaCh(s[i])

\* str.lower on one character (U+00E9 is already lower case).
LowerCh(c) == IF c \in AsciiUpper THEN LowerSeq[IndexOf(UpperSeq, c)] ELSE c
LowerStr(s) == [i \in DOMAIN s |-> LowerCh(s[i])]

\* str.strip(): leading and trailing whitespace removed.
RECURSIVE LStrip(_)
LStrip(s) == IF Len(s) > 0 /\ IsSpaceCh(Head(s)) THEN LStrip(Tail(s)) ELSE s
RECURSIVE RStrip(_)
RStrip(s) ==
    IF Len(s) > 0 /\ IsSpaceCh(s[Len(s)]) THEN RStrip(SubSeq(s, 1, Len(s) - 1)) ELSE s
Strip(s) == RStrip(LStrip(s))

\* str.startswith
StartsWith(s, p) == Len(s) >= Len(p) /\ SubSeq(s, 1, Len(p)) = p

\* str(n) for n >= 0, as the f-strings format a length.
RECURSIVE IntToStr(_)
IntToStr(n) ==
    IF n < 10 THEN <<DigitSeq[n + 1]>>
    ELSE IntToStr(n \div 10) \o <<DigitSeq[(n % 10) + 1]>>

\* int(s) for a string of ASCII decimals.
RECURSIVE StrToInt(_)
StrToInt(s) ==
    IF Len(s) = 0 THEN 0
    ELSE 10 * StrToInt(SubSeq(s, 1, Len(s) - 1)) + (IndexOf(DigitSeq, s[Len(s)]) - 1)

\* "sep".join(parts)
RECURSIVE Join(_, _)
Join(parts, sep) ==
    IF Len(parts) = 0 THEN <<>>
    ELSE IF Len(parts) = 1 THEN parts[1]
    ELSE parts[1] \o sep \o Join(Tail(parts), sep)

\* s.split(sep) for a one-character separator: always at least one part.
RECURSIVE Split(_, _)
Split(s, sep) ==
    IF \A i \in DOMAIN s : s[i] # sep THEN <<s>>
    ELSE LET k == CHOOSE i \in DOMAIN s : s[i] = sep /\ \A j \in 1..(i - 1) : s[j] # sep
         IN <<SubSeq(s, 1, k - 1)>> \o Split(SubSeq(s, k + 1, Len(s)), sep)

(***************************************************************************)
(* utils.py: leet normalisation, the run scanner, classify_run, tokenize,  *)
(* parse_template.                                                         *)
(***************************************************************************)
\* A translation table that also has a letter among its keys.
LEET_MAP_WithLetterKey(c) ==
    CASE c = "1" -> "l"
      [] c = "s" -> "5"
      [] OTHER -> c

\* LEET_MAP: the translation table of leet_normalize.
LEET_MAP(c) ==
    CASE c = "0" -> "o"
      [] c = "1" -> "l"
      [] c = "3" -> "e"
      [] c = "4" -> "a"
      [] c = "5" -> "s"
      [] c = "7" -> "t"
      [] c = "@" -> "a"
      [] c = "$" -> "s"
      [] c = "!" -> "i"
      [] OTHER -> c

leet_normalize(s) == LowerStr([i \in DOMAIN s |-> LEET_MAP(s[i])])

\* The class by which the pattern [A-Za-z]+|\d+|[^A-Za-z\d]+ delimits runs.
\* \d matches decimals only: U+00B2 falls in the third class, as does U+00E9.
ReClass(c) ==
    IF c \in AsciiLetters THEN "letters"
    ELSE IF c \in AsciiDigits THEN "decimals"
    ELSE "other"

\* re.findall(r'[A-Za-z]+|\d+|[^A-Za-z\d]+', s): each alternative is greedy, so
\* a run extends while the class of the characters stays the same.
RECURSIVE FindRuns(_)
FindRuns(s) ==
    IF Len(s) = 0 THEN <<>>
    ELSE LET cls == ReClass(s[1])
             stop == IF \A i \in DOMAIN s : ReClass(s[i]) = cls THEN Len(s) + 1
                     ELSE CHOOSE i \in DOMAIN s :
                              /\ ReClass(s[i]) # cls
                              /\ \A j \in 1..(i - 1) : ReClass(s[j]) = cls
         IN <<SubSeq(s, 1, stop - 1)>> \o FindRuns(SubSeq(s, stop, Len(s)))

W_WORD == <<"W","O","R","D">>
W_DIGITS == <<"D","I","G","I","T","S">>
W_FRAG == <<"F","R","A","G">>
W_SYMBOL == <<"S","Y","M","B","O","L">>

classify_run(r, leet, use_voc, voc) ==
    IF IsDigitStr(r)
    THEN [slot_type |-> "DIGITS", token |-> r, template_token |-> W_DIGITS \o IntToStr(Len(r))]
    ELSE IF IsAlphaStr(r)
    THEN LET token_norm == IF leet THEN leet_normalize(LowerStr(r)) ELSE LowerStr(r)
         IN IF use_voc /\ Len(token_norm) >= 3 /\ voc # {} /\ token_norm \in voc
            THEN [slot_type |-> "WORD", token |-> token_norm,
                  template_token |-> W_WORD \o IntToStr(Len(token_norm))]
            ELSE [slot_type |-> "FRAG", token |-> token_norm, template_token |-> W_FRAG]
    ELSE [slot_type |-> "SYMBOL", token |-> r, template_token |-> W_SYMBOL]

\* The runs tokenize classifies: those of the stripped password.
TokenizeRuns(pw) == FindRuns(Strip(pw))

tokenize(pw, leet, use_voc, voc) ==
    LET runs == TokenizeRuns(pw)
        cls == [i \in DOMAIN runs |-> classify_run(runs[i], leet, use_voc, voc)]
    IN [tokens |-> [i \in DOMAIN runs |-> cls[i].token],
        template |-> Join([i \in DOMAIN runs |-> cls[i].template_token], <<"|">>)]

\* Python's None where an int is expected (a slot's length).
None == -1

\* One part of a template, as parse_template's loop body decodes it.  int()
\* accepts decimals only: a suffix that isdigit() but holds U+00B2 raises.
ParsePart(part) ==
    LET suffix(k) == SubSeq(part, k + 1, Len(part))
        num(k) == IF Len(part) > k /\ IsDigitStr(suffix(k))
                  THEN IF \A i \in DOMAIN suffix(k) : suffix(k)[i] \in AsciiDigits
                       THEN [exc |-> "none", n |-> StrToInt(suffix(k))]
                       ELSE [exc |-> "ValueError", n |-> None]
                  ELSE [exc |-> "none", n |-> None]
    IN IF StartsWith(part, W_WORD)
       THEN [exc |-> num(4).exc, slot |-> <<"WORD", num(4).n>>]
       ELSE IF StartsWith(part, W_DIGITS)
       THEN [exc |-> num(6).exc, slot |-> <<"DIGITS", num(6).n>>]
       ELSE IF part = W_SYMBOL
       THEN [exc |-> "none", slot |-> <<"SYMBOL", None>>]
       ELSE [exc |-> "none", slot |-> <<"FRAG", None>>]

\* parse_template: [exc, slots]; exc is "none" when the call returns.
parse_template(template) ==
    LET parts == Split(template, "|")
        dec == [i \in DOMAIN parts |-> ParsePart(parts[i])]
    IN IF \E i \in DOMAIN dec : dec[i].exc # "none"
       THEN [exc |-> "ValueError", slots |-> <<>>]
       ELSE [exc |-> "none", slots |-> [i \in DOMAIN dec |-> dec[i].slot]]

(***************************************************************************)
(* Inputs of the codec.                                                    *)
(***************************************************************************)
\* Longest enumerated password.
MaxPwLen == 3

EnumAlphabet == {"a", "B", "c", "1", "!", " ", "U+00E9"}

RECURSIVE StringsUpTo(_, _)
StringsUpTo(alphabet, n) ==
    IF n = 0 THEN {<<>>}
    ELSE LET shorter == StringsUpTo(alphabet, n - 1)
         IN shorter \cup {Append(s, c) : s \in {t \in shorter : Len(t) = n - 1}, c \in alphabet}

\* The dictionary load_english_vocab returns when NLTK is present (a sample of
\* it), and the empty set it returns when NLTK is not.
EnglishVocab == {<<"c","a","b">>, <<"p","a","s","s">>}
Vocabularies == {EnglishVocab, {}}

\* What load_english_vocab can meet: the words corpus; no NLTK (ImportError,
\* caught at line 41); NLTK without the corpus and a download that fetches
\* nothing (the LookupError of the second nltk_words.words(), line 38).
VocabLoads == {"words", "ImportError", "LookupError"}

\* load_english_vocab: [exc, vocab]
load_english_vocab(env) ==
    IF env = "words" THEN [exc |-> "none", vocab |-> EnglishVocab]
    ELSE IF env = "ImportError" THEN [exc |-> "none", vocab |-> {}]
    ELSE [exc |-> "LookupError", vocab |-> {}]

\* classify_run lines 80-81: get_english_vocab is called for a letter run of
\* length >= 3 when use_vocab is set; what it raises leaves tokenize.
TokenizeLoadRaises(pw, use_voc, env) ==
    /\ load_english_vocab(env).exc # "none"
    /\ use_voc
    /\ \E i \in DOMAIN TokenizeRuns(pw) :
          IsAlphaStr(TokenizeRuns(pw)[i]) /\ Len(TokenizeRuns(pw)[i]) >= 3

Passwords ==
    StringsUpTo(EnumAlphabet, MaxPwLen)
    \cup {<<"a","b","c","1","2","3">>, <<"x","y","z","9">>, <<"2","0","2","4">>,
          <<"P","a","s","s","1","!">>, <<"U+00B2">>, <<"a","U+00B2">>}

\* Template strings read back from a snapshot.
StoredTemplates ==
    {W_WORD \o <<"4","|">> \o W_DIGITS \o <<"2">>,
     W_DIGITS \o <<"1","2","|">> \o W_FRAG \o <<"|">> \o W_SYMBOL,
     W_SYMBOL, W_FRAG, W_WORD, W_DIGITS, <<>>,
     W_WORD \o <<"x">>, <<"x","y","z">>, <<"w","o","r","d","4">>,
     W_DIGITS \o <<"0">>, W_DIGITS \o <<"U+00B2">>, W_WORD \o <<"1","U+00B2">>}

NoTok == [tokens |-> <<>>, template |-> <<>>]
NoSlots == [exc |-> "none", slots |-> <<>>]


(***************************************************************************)
(* collections.Counter: a dict keeps its keys in insertion order, which    *)
(* most_common's stable sort makes observable, so a Counter is a sequence  *)
(* of [k, n] entries in insertion order, no key twice.                     *)
(***************************************************************************)
CounterKeys(c) == {c[i].k : i \in DOMAIN c}

\* counter[key]: 0 for a missing key, which is not inserted.
CounterGet(c, key) ==
    IF key \in CounterKeys(c) THEN c[CHOOSE i \in DOMAIN c : c[i].k = key].n ELSE 0

\* CounterInc with the slip "counter[key] = 1".
CounterInc_Assign(c, key) ==
    IF key \in CounterKeys(c)
    THEN [i \in DOMAIN c |-> IF c[i].k = key THEN [k |-> key, n |-> 1] ELSE c[i]]
    ELSE Append(c, [k |-> key, n |-> 1])

\* counter[key] += 1
CounterInc(c, key) ==
    IF key \in CounterKeys(c)
    THEN [i \in DOMAIN c |-> IF c[i].k = key THEN [k |-> key, n |-> c[i].n + 1] ELSE c[i]]
    ELSE Append(c, [k |-> key, n |-> 1])

\* sum(counter.values())
RECURSIVE CounterSum(_)
CounterSum(c) == IF Len(c) = 0 THEN 0 ELSE Head(c).n + CounterSum(Tail(c))

\* sorted(items, key=count, reverse=True): stable, so entries of equal count
\* keep their insertion order.
RECURSIVE InsertByCountDesc(_, _)
InsertByCountDesc(sorted, e) ==
    IF Len(sorted) = 0 THEN <<e>>
    ELSE IF Head(sorted).n >= e.n THEN <<Head(sorted)>> \o InsertByCountDesc(Tail(sorted), e)
    ELSE <<e>> \o sorted

RECURSIVE SortByCountDesc(_)
SortByCountDesc(c) ==
    IF Len(c) = 0 THEN <<>>
    ELSE InsertByCountDesc(SortByCountDesc(SubSeq(c, 1, Len(c) - 1)), c[Len(c)])

Min(a, b) == IF a <= b THEN a ELSE b

\* The first n entries in insertion order, whatever their counts.
most_common_Unsorted(c, n) ==
    IF n = None THEN c ELSE SubSeq(c, 1, Min(n, Len(c)))

\* Counter.most_common(n): the n entries of highest count (all of them for None).
most_common(c, n) ==
    LET sorted == SortByCountDesc(c)
    IN IF n = None THEN sorted ELSE SubSeq(sorted, 1, Min(n, Len(sorted)))

(***************************************************************************)
(* pcfg_model.py: PCFGLite.  A model state is the record                   *)
(* [template_counts, slot_counts, total_templates]; slot_counts is a       *)
(* function whose domain is the set of slot types that have a Counter.     *)
(***************************************************************************)
SlotTypes == {"DIGITS", "WORD", "FRAG", "SYMBOL"}

\* PCFGLite.__init__
NoCounters == [s \in {} |-> <<>>]
EmptyModel == [template_counts |-> <<>>, slot_counts |-> NoCounters, total_templates |-> 0]

\* self.slot_counts.get(slot_type, Counter())
SlotCounter(sc, slot_type) == IF slot_type \in DOMAIN sc THEN sc[slot_type] ELSE <<>>

\* PCFGLite.trim_slot_counts
trim_slot_counts(m, top_n) ==
    [m EXCEPT !.slot_counts = [s \in DOMAIN m.slot_counts |-> most_common(m.slot_counts[s], top_n)]]

\* CountTemplate with total_templates advanced for a new template only.
CountTemplate_NewOnly(m, template) ==
    [m EXCEPT !.template_counts = CounterInc(m.template_counts, template),
              !.total_templates = IF template \in CounterKeys(m.template_counts)
                                  THEN m.total_templates
                                  ELSE m.total_templates + 1]

\* fit_list lines 76-78: the template of the password is counted.
CountTemplate(m, template) ==
    [m EXCEPT !.template_counts = CounterInc(m.template_counts, template),
              !.total_templates = m.total_templates + 1]

\* fit_list lines 81-84: the token of every run of the password, as re.findall
\* delimits them on the password as given (not stripped), is counted.
RECURSIVE CountRuns(_, _, _, _, _)
CountRuns(sc, runs, leet, use_voc, voc) ==
    IF Len(runs) = 0 THEN sc
    ELSE LET cr == classify_run(Head(runs), leet, use_voc, voc)
             sc1 == [s \in (DOMAIN sc) \cup {cr.slot_type} |->
                        IF s = cr.slot_type THEN CounterInc(SlotCounter(sc, s), cr.token)
                        ELSE sc[s]]
         IN CountRuns(sc1, Tail(runs), leet, use_voc, voc)

\* The trim period of fit_list (line 93), 500000 in the code, scaled down so that
\* a trim fires inside a fit of a few passwords.
TrimPeriod == 2

\* Python truthiness of an optional int: None and 0 are false.
Truthy(n) == n # None /\ n # 0

\* One iteration of fit_list's loop for a non-empty password; processed is
\* the call's own counter.
FitOne(st, pw, leet, use_voc, trim_top_n, voc) ==
    LET tk == tokenize(pw, leet, use_voc, voc)
        m1 == CountTemplate(st.m, tk.template)
        m2 == [m1 EXCEPT !.slot_counts = CountRuns(m1.slot_counts, FindRuns(pw), leet, use_voc, voc)]
        processed == st.processed + 1
        m3 == IF Truthy(trim_top_n) /\ processed % TrimPeriod = 0
              THEN trim_slot_counts(m2, trim_top_n)
              ELSE m2
    IN [m |-> m3, processed |-> processed]

\* fit_list's loop from index i (0-based, as enumerate counts) on.
RECURSIVE FitLoop(_, _, _, _, _, _, _, _)
FitLoop(st, pw_list, i, max_samples, leet, use_voc, trim_top_n, voc) ==
    IF i >= Len(pw_list) THEN st
    ELSE IF Truthy(max_samples) /\ i >= max_samples THEN st
    ELSE IF pw_list[i + 1] = <<>>
    THEN FitLoop(st, pw_list, i + 1, max_samples, leet, use_voc, trim_top_n, voc)
    ELSE FitLoop(FitOne(st, pw_list[i + 1], leet, use_voc, trim_top_n, voc),
                 pw_list, i + 1, max_samples, leet, use_voc, trim_top_n, voc)

\* PCFGLite.fit_list
fit_list(m, pw_list, max_samples, leet, use_voc, trim_top_n, voc) ==
    FitLoop([m |-> m, processed |-> 0], pw_list, 0, max_samples, leet, use_voc, trim_top_n, voc).m

\* iter_lines_from_file with skip_empty: the file's lines without the empty ones.
RECURSIVE iter_lines_from_file(_)
iter_lines_from_file(lines) ==
    IF Len(lines) = 0 THEN <<>>
    ELSE IF Head(lines) = <<>> THEN iter_lines_from_file(Tail(lines))
    ELSE <<Head(lines)>> \o iter_lines_from_file(Tail(lines))

\* PCFGLite.fit_file: the first max_lines non-empty lines go to fit_list.
fit_file(m, lines, max_lines, leet, use_voc, trim_top_n, voc) ==
    LET all == iter_lines_from_file(lines)
        fed == IF Truthy(max_lines) THEN SubSeq(all, 1, Min(max_lines, Len(all))) ELSE all
    IN fit_list(m, fed, None, leet, use_voc, trim_top_n, voc)

\* template_prob without the smoothing term in the numerator.
template_prob_Unsmoothed(m, a, template) ==
    LET V == Len(m.template_counts)
    IN <<CounterGet(m.template_counts, template) * a[2],
         m.total_templates * a[2] + a[1] * (V + 1)>>

\* PCFGLite.template_prob, as the rational <<numerator, denominator>>; a is
\* alpha as <<numerator, denominator>>.
template_prob(m, a, template) ==
    LET V == Len(m.template_counts)
    IN <<CounterGet(m.template_counts, template) * a[2] + a[1],
         m.total_templates * a[2] + a[1] * (V + 1)>>

\* slot_token_prob with alpha * V for alpha * (V + 1) in the denominator.
slot_token_prob_NoUnseenMass(m, a, slot_type, token) ==
    LET counter == SlotCounter(m.slot_counts, slot_type)
        total == CounterSum(counter)
        V == Len(counter)
    IN <<CounterGet(counter, token) * a[2] + a[1], total * a[2] + a[1] * V>>

\* PCFGLite.slot_token_prob, as the rational <<numerator, denominator>>.
slot_token_prob(m, a, slot_type, token) ==
    LET counter == SlotCounter(m.slot_counts, slot_type)
        total == CounterSum(counter)
        V == Len(counter)
    IN <<CounterGet(counter, token) * a[2] + a[1], total * a[2] + a[1] * (V + 1)>>

(***************************************************************************)
(* Training: the calls a caller can make on one PCFGLite.                  *)
(***************************************************************************)
\* Calls made on one model in a behaviour.
MaxOps == 2

PW_abc123 == <<"a","b","c","1","2","3">>
PW_xyz9 == <<"x","y","z","9">>
PW_caB1 == <<"c","a","B","1">>
PW_blank == <<" ">>
PW_sp_a == <<" ","a">>
PW_1bang == <<"1","!">>

ExampleCorpus == <<PW_abc123, PW_abc123, PW_xyz9>>

Corpora ==
    {ExampleCorpus,
     <<<<>>, PW_blank, PW_caB1>>,
     <<PW_sp_a, PW_1bang, PW_caB1, PW_xyz9, PW_1bang>>,
     <<>>}

\* Password files: the lines of each file that exists.
DataFiles == {<<PW_caB1, <<>>, PW_1bang, PW_abc123>>, <<PW_xyz9>>}

MaxSamplesArgs == {None, 2}
TrimTopNArgs == {None, 1}
TopNArgs == {0, 1, 2}
Alphas == {<<1, 2>>, <<5, 2>>}

Model ==
    [template_counts |-> template_counts, slot_counts |-> slot_counts,
     total_templates |-> total_templates]

NoCall == [op |-> "none", pw_list |-> <<>>, max_samples |-> None, use_vocab |-> FALSE,
           trim_top_n |-> None]

NoTrim == [top_n |-> None, before |-> EmptyModel, alpha |-> <<1, 1>>, do_leet |-> FALSE]

IdlePcfg ==
    /\ template_counts = <<>>
    /\ slot_counts = NoCounters
    /\ total_templates = 0
    /\ alpha = <<1, 1>>
    /\ do_leet = FALSE
    /\ ops_done = 0
    /\ first_call = NoCall
    /\ trim_top_ns = {}
    /\ last_trim = NoTrim

NoSnap == [args |-> <<>>, out |-> <<>>]

NoFile == [origin |-> "none", kind |-> "missing", data |-> <<>>]
NoLoad == [outcome |-> "none", model |-> <<>>]

IdlePersist ==
    /\ disk = NoFile
    /\ load_state_only = FALSE
    /\ load_result = NoLoad
    /\ persist_pc = "idle"
    /\ snap = NoSnap

NoGenCall == [op |-> "none"]

IdleGen ==
    /\ top_words = <<>>
    /\ top_digits = <<>>
    /\ top_frags = <<>>
    /\ count_map = <<>>
    /\ gen_call = NoGenCall
    /\ det_out = <<>>
    /\ det_steps = <<>>
    /\ sto_results = <<>>
    /\ sto_drawn = 0
    /\ sto_history = <<>>
    /\ est_out = <<0, 0>>
    /\ sto_out = <<>>
    /\ gen_pc = "idle"

\* None where a password is expected: a value no password equals.
PyNone == <<"None">>

NoCrackCall == [passwords |-> <<>>, chunk_size |-> 0, max_workers |-> 0]

NoCrackEnv == [suffix |-> "", msoffcrypto |-> FALSE, pikepdf |-> FALSE, opens |-> {}]

IdleCrack ==
    /\ crack_env = NoCrackEnv
    /\ crack_call = NoCrackCall
    /\ chunks = <<>>
    /\ fut_state = <<>>
    /\ fut_seen = {}
    /\ total_attempts = 0
    /\ found_pw = PyNone
    /\ crack_ret = [found |-> PyNone, attempts |-> 0]
    /\ crack_pc = "idle"

IdleComb ==
    /\ comb_inputs = <<>>
    /\ comb_out = <<>>
    /\ comb_count = 0
    /\ comb_prev = <<>>
    /\ comb_pc = "idle"

IdleCodec ==
    /\ vocab_load = "idle"
    /\ password = <<>>
    /\ do_leet_arg = FALSE
    /\ use_vocab_arg = FALSE
    /\ tok_result = NoTok
    /\ template_arg = <<>>
    /\ slots_result = NoSlots
    /\ codec_pc = "idle"

\* PCFGLite(alpha, do_leet)
InitPcfg ==
    /\ vocab \in Vocabularies
    /\ template_counts = EmptyModel.template_counts
    /\ slot_counts = EmptyModel.slot_counts
    /\ total_templates = EmptyModel.total_templates
    /\ alpha \in Alphas
    /\ do_leet \in BOOLEAN
    /\ ops_done = 0
    /\ first_call = NoCall
    /\ trim_top_ns = {}
    /\ last_trim = NoTrim
    /\ IdleCodec
    /\ IdlePersist
    /\ IdleGen
    /\ IdleComb
    /\ IdleCrack

SetModel(m, call) ==
    /\ template_counts' = m.template_counts
    /\ slot_counts' = m.slot_counts
    /\ total_templates' = m.total_templates
    /\ ops_done' = ops_done + 1
    /\ first_call' = IF ops_done = 0 THEN call ELSE first_call
    /\ trim_top_ns' = IF call.op \in {"fit_list", "fit_file"}
                      THEN trim_top_ns \cup {call.trim_top_n}
                      ELSE trim_top_ns
    /\ last_trim' = IF call.op = "trim_slot_counts"
                    THEN [top_n |-> call.trim_top_n, before |-> Model, alpha |-> alpha,
                          do_leet |-> do_leet]
                    ELSE NoTrim
    /\ UNCHANGED <<vocab, crackVars, alpha, do_leet, codecVars, persistVars, genVars, combVars>>

FitList ==
    /\ ops_done < MaxOps
    /\ \E pw_list \in Corpora, max_samples \in MaxSamplesArgs, use_voc \in BOOLEAN,
          trim_top_n \in TrimTopNArgs :
          SetModel(fit_list(Model, pw_list, max_samples, do_leet, use_voc, trim_top_n, vocab),
                   [op |-> "fit_list", pw_list |-> pw_list, max_samples |-> max_samples,
                    use_vocab |-> use_voc, trim_top_n |-> trim_top_n])

FitFile ==
    /\ ops_done < MaxOps
    /\ \E lines \in DataFiles, max_lines \in MaxSamplesArgs, use_voc \in BOOLEAN,
          trim_top_n \in TrimTopNArgs :
          SetModel(fit_file(Model, lines, max_lines, do_leet, use_voc, trim_top_n, vocab),
                   [NoCall EXCEPT !.op = "fit_file", !.trim_top_n = trim_top_n])

\* fit_file on a path that does not exist: iter_lines_from_file raises
\* FileNotFoundError before anything is counted.
FitFileMissing ==
    /\ ops_done < MaxOps
    /\ SetModel(Model, [NoCall EXCEPT !.op = "fit_file_missing"])

TrimSlotCounts ==
    /\ ops_done < MaxOps
    /\ \E top_n \in TopNArgs :
          SetModel(trim_slot_counts(Model, top_n),
                   [NoCall EXCEPT !.op = "trim_slot_counts", !.trim_top_n = top_n])

InitCodec ==
    /\ vocab_load \in VocabLoads
    /\ vocab = load_english_vocab(vocab_load).vocab
    /\ password \in Passwords
    /\ do_leet_arg \in BOOLEAN
    /\ use_vocab_arg \in BOOLEAN
    /\ tok_result = NoTok
    /\ template_arg = <<>>
    /\ slots_result = NoSlots
    /\ codec_pc = "start"
    /\ IdlePcfg
    /\ IdlePersist
    /\ IdleGen
    /\ IdleComb
    /\ IdleCrack

Tokenize ==
    /\ codec_pc = "start"
    /\ ~TokenizeLoadRaises(password, use_vocab_arg, vocab_load)
    /\ tok_result' = tokenize(password, do_leet_arg, use_vocab_arg, vocab)
    /\ codec_pc' = "tokenized"
    /\ UNCHANGED <<vocab, crackVars, vocab_load, password, do_leet_arg, use_vocab_arg, template_arg,
                   slots_result, pcfgVars, persistVars, genVars, combVars>>

\* tokenize left by the LookupError of load_english_vocab.
TokenizeRaises ==
    /\ codec_pc = "start"
    /\ TokenizeLoadRaises(password, use_vocab_arg, vocab_load)
    /\ codec_pc' = "raised"
    /\ UNCHANGED <<vocab, crackVars, vocab_load, password, do_leet_arg, use_vocab_arg, tok_result,
                   template_arg, slots_result, pcfgVars, persistVars, genVars, combVars>>

ParseTemplate ==
    /\ codec_pc = "tokenized"
    /\ template_arg' = tok_result.template
    /\ slots_result' = parse_template(tok_result.template)
    /\ codec_pc' = "parsed"
    /\ UNCHANGED <<vocab, crackVars, vocab_load, password, do_leet_arg, use_vocab_arg, tok_result, pcfgVars,
                   persistVars, genVars, combVars>>

\* parse_template on a stored template string, whatever produced it.
ParseStoredTemplate ==
    /\ codec_pc = "start"
    /\ \E template \in StoredTemplates :
          /\ template_arg' = template
          /\ slots_result' = parse_template(template)
    /\ codec_pc' = "parsed_given"
    /\ UNCHANGED <<vocab, crackVars, vocab_load, password, do_leet_arg, use_vocab_arg, tok_result, pcfgVars,
                   persistVars, genVars, combVars>>

vars == <<vocab, codecVars, pcfgVars, persistVars, genVars, combVars, crackVars>>

NextCodec == Tokenize \/ TokenizeRaises \/ ParseTemplate \/ ParseStoredTemplate

SpecCodec == InitCodec /\ [][NextCodec]_vars

NextPcfg == FitList \/ FitFile \/ FitFileMissing \/ TrimSlotCounts

SpecPcfg == InitPcfg /\ [][NextPcfg]_vars

(***************************************************************************)
(* Properties of training.                                                 *)
(***************************************************************************)
\* C1: after any sequence of fit_list / fit_file / trim_slot_counts calls on a
\* model that started empty (trims fired inside fit included), total_templates
\* equals the sum of the values of template_counts.
C1_TotalIsSumOfTemplateCounts == total_templates = CounterSum(template_counts)

\* A fit whose periodic trim fired, followed by a further fit.
C1_Witness ==
    /\ ops_done = 2
    /\ first_call.op = "fit_list"
    /\ first_call.trim_top_n = 1
    /\ first_call.max_samples = None
    /\ Len(first_call.pw_list) = 5
    /\ total_templates > 5
    /\ \E i \in DOMAIN template_counts : template_counts[i].n >= 2

N_abc == <<"a","b","c">>
N_xyz == <<"x","y","z">>
N_new == <<"n","e","w">>
T_FRAG_DIGITS3 == W_FRAG \o <<"|">> \o W_DIGITS \o <<"3">>
T_FRAG_DIGITS1 == W_FRAG \o <<"|">> \o W_DIGITS \o <<"1">>

\* Templates and tokens the probabilities are asked for: every one a corpus can
\* have produced (seen, or evicted by a trim) and ones never observed.
ProbeTemplates ==
    CounterKeys(template_counts)
    \cup {T_FRAG_DIGITS3, T_FRAG_DIGITS1, W_WORD \o <<"3">> \o <<"|">> \o W_DIGITS \o <<"1">>,
          <<>>, W_SYMBOL, N_new}
ProbeTokens ==
    UNION {CounterKeys(slot_counts[s]) : s \in DOMAIN slot_counts}
    \cup {N_abc, N_xyz, <<"c","a","b">>, <<"1","2","3">>, <<"9">>, <<"1">>, <<"!">>, <<" ">>, N_new}
ProbeSlotTypes == SlotTypes \cup {"OTHER"}

\* p = <<numerator, denominator>> lies in (0, 1].
InUnitInterval(p) == p[2] > 0 /\ 0 < p[1] /\ p[1] <= p[2]

\* C2: in every model state reachable by fit and trim (the empty model included),
\* with alpha > 0, template_prob and slot_token_prob are in (0, 1] for every
\* template, slot type and token: seen, never observed, or evicted by a trim.
C2_ProbabilitiesInUnitInterval ==
    /\ alpha[1] > 0 /\ alpha[2] > 0
    /\ \A t \in ProbeTemplates : InUnitInterval(template_prob(Model, alpha, t))
    /\ \A s \in ProbeSlotTypes, tok \in ProbeTokens :
          InUnitInterval(slot_token_prob(Model, alpha, s, tok))

\* A trained model from which a trim has evicted the token xyz: its probability
\* is the smoothing floor, and the retained abc is below 1.
C2_Witness ==
    /\ ops_done = 2
    /\ first_call.op = "fit_list"
    /\ first_call.pw_list = ExampleCorpus
    /\ first_call.trim_top_n = None
    /\ total_templates = 3
    /\ "FRAG" \in DOMAIN slot_counts
    /\ CounterKeys(slot_counts["FRAG"]) = {N_abc}
    /\ slot_token_prob(Model, alpha, "FRAG", N_xyz)[1] = alpha[1]
    /\ slot_token_prob(Model, alpha, "FRAG", N_abc)[1] < slot_token_prob(Model, alpha, "FRAG", N_abc)[2]
    /\ template_prob(Model, alpha, N_new)[1] = alpha[1]

\* The lines fit_list's loop reaches: all of them, or the first max_samples.
LinesReached(call) ==
    IF Truthy(call.max_samples)
    THEN SubSeq(call.pw_list, 1, Min(call.max_samples, Len(call.pw_list)))
    ELSE call.pw_list

\* C8: after fit_list on a fresh model, template_counts[t] is the number of
\* non-empty lines whose template (as tokenize computes it) is t, for every t,
\* and total_templates is the number of non-empty lines; the lines are those of
\* the corpus, or its first max_samples lines when max_samples is given.  The
\* corpus abc123, abc123, xyz9 gives {FRAG|DIGITS3: 2, FRAG|DIGITS1: 1}, total 3.
C8_FitCountsTemplates ==
    (ops_done = 1 /\ first_call.op = "fit_list") =>
        LET L == LinesReached(first_call)
            nonEmpty == {i \in DOMAIN L : L[i] # <<>>}
            tpl(i) == tokenize(L[i], do_leet, first_call.use_vocab, vocab).template
        IN /\ total_templates = Cardinality(nonEmpty)
           /\ \A t \in CounterKeys(template_counts) \cup {tpl(i) : i \in nonEmpty} :
                 CounterGet(template_counts, t) = Cardinality({i \in nonEmpty : tpl(i) = t})
           /\ (first_call.pw_list = ExampleCorpus /\ first_call.max_samples = None) =>
                 /\ template_counts = <<[k |-> T_FRAG_DIGITS3, n |-> 2],
                                        [k |-> T_FRAG_DIGITS1, n |-> 1]>>
                 /\ total_templates = 3

\* The corpus abc123, abc123, xyz9 fitted whole into a fresh model.
C8_Witness ==
    /\ ops_done = 1
    /\ first_call.op = "fit_list"
    /\ first_call.pw_list = ExampleCorpus
    /\ first_call.max_samples = None
    /\ CounterGet(template_counts, T_FRAG_DIGITS3) = 2

\* Every fit call made on the model was given the same trim_top_n = n.
TrimmingConfigured(n) == Truthy(n) /\ trim_top_ns = {n}

\* No token table of the model holds more than n entries.
TablesWithin(n) == \A s \in DOMAIN slot_counts : Len(slot_counts[s]) <= n

\* C20: with trim_top_n = N in every fit call on a model, the trim runs each
\* time the number of passwords the model has processed reaches a further
\* multiple of the trim period, however the corpus is split across the calls:
\* when that number stands at a multiple, no token table holds more than N
\* entries.
C20_TrimFollowsModelCount ==
    \A n \in TrimTopNArgs :
        (TrimmingConfigured(n) /\ total_templates > 0 /\ total_templates % TrimPeriod = 0)
            => TablesWithin(n)

\* Within one fit call on a fresh model the tables are trimmed at every
\* multiple of the period.
C20_TrimWithinOneFit ==
    \A n \in TrimTopNArgs :
        (ops_done = 1 /\ TrimmingConfigured(n)
            /\ total_templates > 0 /\ total_templates % TrimPeriod = 0)
            => TablesWithin(n)

\* The last call on the model was trim_slot_counts(N), on a model it had
\* something to trim in.
Trimmed == last_trim # NoTrim

\* C21: trim_slot_counts(N) leaves every slot table with at most N tokens, each
\* retained token with the count it had before, no dropped token with a count
\* strictly greater than a retained token of its slot, and template_counts,
\* total_templates, alpha and do_leet as they were.
C21_TrimKeepsTopTokens ==
    Trimmed =>
        LET before == last_trim.before
        IN /\ DOMAIN slot_counts = DOMAIN before.slot_counts
           /\ \A s \in DOMAIN slot_counts :
                 /\ Len(slot_counts[s]) <= last_trim.top_n
                 /\ CounterKeys(slot_counts[s]) \subseteq CounterKeys(before.slot_counts[s])
                 /\ \A i, j \in DOMAIN slot_counts[s] :
                       slot_counts[s][i].k = slot_counts[s][j].k => i = j
                 /\ \A key \in CounterKeys(slot_counts[s]) :
                       CounterGet(slot_counts[s], key) = CounterGet(before.slot_counts[s], key)
                 /\ \A d \in CounterKeys(before.slot_counts[s]) \ CounterKeys(slot_counts[s]),
                       r \in CounterKeys(slot_counts[s]) :
                       CounterGet(before.slot_counts[s], d) <= CounterGet(before.slot_counts[s], r)
           /\ template_counts = before.template_counts
           /\ total_templates = before.total_templates
           /\ alpha = last_trim.alpha
           /\ do_leet = last_trim.do_leet

\* trim_slot_counts(1) on a model whose SYMBOL table held the blank (count 1,
\* seen first) and ! (count 2): ! is kept with count 2.
C21_Witness ==
    /\ Trimmed
    /\ last_trim.top_n = 1
    /\ "SYMBOL" \in DOMAIN slot_counts
    /\ last_trim.before.slot_counts["SYMBOL"]
          = <<[k |-> <<" ">>, n |-> 1], [k |-> <<"!">>, n |-> 2]>>
    /\ slot_counts["SYMBOL"] = <<[k |-> <<"!">>, n |-> 2]>>

(***************************************************************************)
(* Properties of the template codec.                                       *)
(***************************************************************************)
\* The slot types classify_run assigns to the runs tokenize scans.
RunSlotTypes(pw, leet, use_voc, voc) ==
    LET runs == TokenizeRuns(pw)
    IN [i \in DOMAIN runs |-> classify_run(runs[i], leet, use_voc, voc).slot_type]

DecodedSlotTypes(parsed) == [i \in DOMAIN parsed.slots |-> parsed.slots[i][1]]

\* C4: for any password, the empty string and whitespace-only strings included,
\* parse_template of the template tokenize returns gives the slot types that
\* classify_run assigns to the password's runs: same length, same type at each
\* position.
C4_CodecRoundTrip ==
    codec_pc = "parsed" =>
        /\ slots_result.exc = "none"
        /\ DecodedSlotTypes(slots_result)
              = RunSlotTypes(password, do_leet_arg, use_vocab_arg, vocab)

\* The round trip does hold for every password that has at least one run.
C4_RoundTripOfNonEmpty ==
    (codec_pc = "parsed" /\ Strip(password) # <<>>) =>
        /\ slots_result.exc = "none"
        /\ DecodedSlotTypes(slots_result)
              = RunSlotTypes(password, do_leet_arg, use_vocab_arg, vocab)

\* The slots the claim allows for a part: (WORD, N) or (DIGITS, N) for WORD<N> or
\* DIGITS<N> with an integer N, SYMBOL and FRAG for themselves, (FRAG, None)
\* for every other part; a WORD or DIGITS prefix without an integer after it
\* may also keep its type, with no length.
ClaimedSlots(part) ==
    LET decimal(k) == /\ Len(part) > k
                      /\ \A i \in (k + 1)..Len(part) : part[i] \in AsciiDigits
    IN IF StartsWith(part, W_WORD)
       THEN IF decimal(4) THEN {<<"WORD", StrToInt(SubSeq(part, 5, Len(part)))>>}
            ELSE {<<"WORD", None>>, <<"FRAG", None>>}
       ELSE IF StartsWith(part, W_DIGITS)
       THEN IF decimal(6) THEN {<<"DIGITS", StrToInt(SubSeq(part, 7, Len(part)))>>}
            ELSE {<<"DIGITS", None>>, <<"FRAG", None>>}
       ELSE IF part = W_SYMBOL THEN {<<"SYMBOL", None>>}
       ELSE {<<"FRAG", None>>}

\* C12: parse_template raises for no input string and returns one slot per
\* part of the split on "|": (WORD, N) for WORD<N>, (DIGITS, N) for DIGITS<N>,
\* SYMBOL and FRAG for themselves, (FRAG, None) for every other part;
\* WORD4|DIGITS2 gives [(WORD, 4), (DIGITS, 2)].
C12_ParseTemplateNeverRaises ==
    codec_pc \in {"parsed", "parsed_given"} =>
        LET parts == Split(template_arg, "|")
        IN /\ slots_result.exc = "none"
           /\ Len(slots_result.slots) = Len(parts)
           /\ \A i \in DOMAIN parts : slots_result.slots[i] \in ClaimedSlots(parts[i])

\* The same for the calls of parse_template that return.
C12_ParseTemplateWhenReturning ==
    (codec_pc \in {"parsed", "parsed_given"} /\ slots_result.exc = "none") =>
        LET parts == Split(template_arg, "|")
        IN /\ Len(slots_result.slots) = Len(parts)
           /\ \A i \in DOMAIN parts : slots_result.slots[i] \in ClaimedSlots(parts[i])

\* What parse_template does guarantee: it returns for every template that
\* tokenize produces, and for WORD4|DIGITS2 it returns [(WORD, 4), (DIGITS, 2)].
C12_ParseOfTokenized ==
    /\ codec_pc = "parsed" => slots_result.exc = "none"
    /\ (codec_pc = "parsed_given" /\ template_arg = W_WORD \o <<"4","|">> \o W_DIGITS \o <<"2">>)
          => slots_result = [exc |-> "none", slots |-> <<<<"WORD", 4>>, <<"DIGITS", 2>>>>]

\* The parts of the template tokenize returned.
TemplateParts == IF tok_result.tokens = <<>> THEN <<>> ELSE Split(tok_result.template, "|")

\* What the claim gives a letter run: [token, template_token].
ClaimedLetterRun(r) ==
    LET token_norm == IF do_leet_arg THEN leet_normalize(LowerStr(r)) ELSE LowerStr(r)
    IN IF use_vocab_arg /\ Len(token_norm) >= 3 /\ token_norm \in vocab
       THEN [token |-> token_norm, template_token |-> W_WORD \o IntToStr(Len(token_norm))]
       ELSE [token |-> token_norm, template_token |-> W_FRAG]

\* Every letter run of the password got the token and the template token the
\* claim gives it, and none is WORD when the dictionary is empty.
LetterRunsAsClaimed ==
    codec_pc \in {"tokenized", "parsed"} =>
        LET runs == TokenizeRuns(password)
        IN /\ Len(tok_result.tokens) = Len(runs)
           /\ \A i \in DOMAIN runs :
                 IsAlphaStr(runs[i]) =>
                     /\ tok_result.tokens[i] = ClaimedLetterRun(runs[i]).token
                     /\ TemplateParts[i] = ClaimedLetterRun(runs[i]).template_token
                     /\ vocab = {} => TemplateParts[i] = W_FRAG

\* C13: a letter run is WORD, with template token WORD<L>, L the length of the
\* normalized token, exactly when use_vocab is set, the normalized token has
\* length >= 3 and is in the dictionary; otherwise it is FRAG with template
\* token FRAG.  When the dictionary is unavailable or empty no run is WORD and
\* no error is raised.
C13_WordIffInDictionaryAndNoError ==
    /\ LetterRunsAsClaimed
    /\ codec_pc # "raised"

\* The classification holds wherever tokenize returns.
C13_WordIffInDictionary == LetterRunsAsClaimed

\* Where the i-th token starts in the string, the tokens laid end to end.
RECURSIVE TokenStart(_)
TokenStart(i) == IF i = 1 THEN 1 ELSE TokenStart(i - 1) + Len(tok_result.tokens[i - 1])

\* The tokens tokenize returned cut the string s into runs: they cover every
\* character of s once, none is empty, each stands for a stretch of one
\* character class, and adjacent stretches are of different classes.
TokensPartition(s) ==
    LET tokens == tok_result.tokens
        last == IF Len(tokens) = 0 THEN 0 ELSE TokenStart(Len(tokens)) + Len(tokens[Len(tokens)]) - 1
        run(i) == SubSeq(s, TokenStart(i), TokenStart(i) + Len(tokens[i]) - 1)
    IN /\ last = Len(s)
       /\ \A i \in DOMAIN tokens :
             /\ Len(tokens[i]) > 0
             /\ \A j \in DOMAIN run(i) : ReClass(run(i)[j]) = ReClass(run(i)[1])
             /\ ReClass(run(i)[1]) # "letters" => tokens[i] = run(i)
             /\ (ReClass(run(i)[1]) = "letters" /\ ~do_leet_arg) => tokens[i] = LowerStr(run(i))
       /\ \A i \in 1..(Len(tokens) - 1) : ReClass(run(i)[1]) # ReClass(run(i + 1)[1])

\* C14: the runs tokenize splits a password into partition the password:
\* laid end to end they give every character of the password exactly once, no
\* run is empty, and adjacent runs are of different character classes.
C14_RunsPartitionPassword ==
    codec_pc \in {"tokenized", "parsed"} => TokensPartition(password)

\* The runs do partition the password with its leading and trailing
\* whitespace removed.
C14_RunsPartitionStrippedPassword ==
    codec_pc \in {"tokenized", "parsed"} => TokensPartition(Strip(password))

\* The i-th run of the password got the slot type of the class by which the
\* scanner delimited it.
RunAgreesWithScanner(i) ==
    LET r == TokenizeRuns(password)[i]
        cls == ReClass(r[1])
    IN IF cls = "decimals"
       THEN /\ TemplateParts[i] = W_DIGITS \o IntToStr(Len(r))
            /\ tok_result.tokens[i] = r
       ELSE IF cls = "letters"
       THEN TemplateParts[i] \in {W_FRAG, W_WORD \o IntToStr(Len(r))}
       ELSE /\ TemplateParts[i] = W_SYMBOL
            /\ tok_result.tokens[i] = r

\* C15: the slot type classify_run assigns agrees with the class by which the
\* scanner delimited the run: a digit run is DIGITS<L> with the literal run as
\* token, a letter run is WORD or FRAG, and every run of the third class
\* (non-ASCII letters and non-decimal digit characters included) is SYMBOL with
\* the literal run as token.  The run 2024 is DIGITS, token 2024, DIGITS4.
C15_ClassifierAgreesWithScanner ==
    codec_pc \in {"tokenized", "parsed"} =>
        /\ Len(TemplateParts) = Len(TokenizeRuns(password))
        /\ \A i \in DOMAIN TokenizeRuns(password) : RunAgreesWithScanner(i)

\* They do agree on every run that holds an ASCII character, hence on every
\* ASCII password and on 2024.
C15_AgreesOnAsciiRuns ==
    codec_pc \in {"tokenized", "parsed"} =>
        /\ Len(TemplateParts) = Len(TokenizeRuns(password))
        /\ \A i \in DOMAIN TokenizeRuns(password) :
              (\E j \in DOMAIN TokenizeRuns(password)[i] :
                  TokenizeRuns(password)[i][j] \notin {"U+00E9", "U+00B2"})
                      => RunAgreesWithScanner(i)
        /\ password = <<"2","0","2","4">> =>
              tok_result = [tokens |-> <<password>>, template |-> W_DIGITS \o <<"4">>]

(***************************************************************************)
(* pcfg_model.py: PCFGLite.save and PCFGLite.load.  The file holds one     *)
(* pickled object:                                                         *)
(*   "wrapped"         {"__pcfg_state_v1": True, "data": <dict>}            *)
(*   "wrapped_nodata"  {"__pcfg_state_v1": True}                            *)
(*   "dict"            a dict without the "__pcfg_state_v1" marker          *)
(*   "object"          a PCFGLite instance                                  *)
(*   "list"            an object that is neither a dict nor a PCFGLite      *)
(*   "garbage"         bytes that are not a pickle                          *)
(* A dict is a record holding the keys it has.                             *)
(***************************************************************************)
\* dict.get(key, default)
DictGet(st, key, default) == IF key \in DOMAIN st THEN st[key] ELSE default

\* PCFGLite.save: the object pickled at the path.
save(m, a, leet, state_only) ==
    IF state_only
    THEN [origin |-> "save_state", kind |-> "wrapped",
          data |-> [template_counts |-> m.template_counts, slot_counts |-> m.slot_counts,
                    total_templates |-> m.total_templates, alpha |-> a, do_leet |-> leet]]
    ELSE [origin |-> "save_object", kind |-> "object",
          data |-> [template_counts |-> m.template_counts, slot_counts |-> m.slot_counts,
                    total_templates |-> m.total_templates, alpha |-> a, do_leet |-> leet]]

Raised(exc) == [outcome |-> exc, model |-> <<>>]
Returned(model) == [outcome |-> "returned", model |-> model]

\* The model built from the state dict with its token tables left empty.
ModelFromState_NoSlotCounts(st) ==
    [template_counts |-> DictGet(st, "template_counts", <<>>),
     slot_counts |-> NoCounters,
     total_templates |-> DictGet(st, "total_templates", 0),
     alpha |-> DictGet(st, "alpha", <<1, 1>>),
     do_leet |-> DictGet(st, "do_leet", FALSE)]

\* load lines 233-236: the model built from the state dict, a default taking
\* the place of every key the dict lacks.
ModelFromState(st) ==
    [template_counts |-> DictGet(st, "template_counts", <<>>),
     slot_counts |-> DictGet(st, "slot_counts", NoCounters),
     total_templates |-> DictGet(st, "total_templates", 0),
     alpha |-> DictGet(st, "alpha", <<1, 1>>),
     do_leet |-> DictGet(st, "do_leet", FALSE)]

\* PCFGLite.load
load(file, state_only) ==
    IF file.kind = "missing" THEN Raised("FileNotFoundError")
    ELSE IF file.kind = "garbage" THEN Raised("UnpicklingError")
    ELSE IF state_only
    THEN IF file.kind = "wrapped" THEN Returned(ModelFromState(file.data))
         ELSE IF file.kind = "wrapped_nodata" THEN Raised("KeyError")
         ELSE IF file.kind = "dict" THEN Returned(ModelFromState(file.data))
         ELSE Raised("AttributeError")
    ELSE IF file.kind = "object" THEN Returned(file.data)
         ELSE Raised("TypeError")

\* top_tokens returning one entry more than asked for.
top_tokens_OneMore(m, slot_type, n) == most_common(SlotCounter(m.slot_counts, slot_type), n + 1)

\* PCFGLite.top_templates
top_templates(m, n) == most_common(m.template_counts, n)

\* PCFGLite.top_tokens
top_tokens(m, slot_type, n) == most_common(SlotCounter(m.slot_counts, slot_type), n)

\* PCFGLite.snapshot
snapshot(m, top_templates_n, top_words_n, top_digits_n) ==
    [total_templates |-> m.total_templates,
     unique_templates |-> Len(m.template_counts),
     top_templates |-> top_templates(m, top_templates_n),
     top_words |-> top_tokens(m, "WORD", top_words_n),
     top_digits |-> top_tokens(m, "DIGITS", top_digits_n)]

\* Arguments of snapshot: <<top_templates_n, top_words_n, top_digits_n>>, the
\* last being the defaults.
SnapArgs == {<<0, 0, 0>>, <<1, 1, 1>>, <<2, 1, 1>>, <<200, 500, 200>>}

\* Models a caller can hold: the fresh one, and one fit_list call on it.
TrainedModels(leet, voc) ==
    {EmptyModel}
    \cup {fit_list(EmptyModel, c, None, leet, use_voc, trim_top_n, voc) :
             c \in Corpora, use_voc \in BOOLEAN, trim_top_n \in TrimTopNArgs}

\* Files at the path that PCFGLite.save did not write.
ForeignFiles ==
    {[origin |-> "foreign", kind |-> "dict", data |-> [x \in {} |-> 0]],
     [origin |-> "foreign", kind |-> "dict", data |-> [words |-> 3]],
     [origin |-> "foreign", kind |-> "dict", data |-> [alpha |-> <<5, 2>>]],
     [origin |-> "foreign", kind |-> "wrapped", data |-> [words |-> 3]],
     [origin |-> "foreign", kind |-> "wrapped_nodata", data |-> <<>>],
     [origin |-> "foreign", kind |-> "list", data |-> <<>>],
     [origin |-> "foreign", kind |-> "garbage", data |-> <<>>]}

InitPersist ==
    /\ vocab \in Vocabularies
    /\ alpha \in Alphas
    /\ do_leet \in BOOLEAN
    /\ \E m \in TrainedModels(do_leet, vocab) :
          /\ template_counts = m.template_counts
          /\ slot_counts = m.slot_counts
          /\ total_templates = m.total_templates
    /\ ops_done = 0
    /\ first_call = NoCall
    /\ trim_top_ns = {}
    /\ last_trim = NoTrim
    /\ disk = NoFile
    /\ load_state_only = FALSE
    /\ load_result = NoLoad
    /\ persist_pc = "ready"
    /\ snap = NoSnap
    /\ IdleCodec
    /\ IdleGen
    /\ IdleComb
    /\ IdleCrack

\* model.save(path, state_only)
Save ==
    /\ persist_pc = "ready"
    /\ disk.kind = "missing"
    /\ \E state_only \in BOOLEAN : disk' = save(Model, alpha, do_leet, state_only)
    /\ UNCHANGED <<vocab, crackVars, codecVars, pcfgVars, load_state_only, load_result, persist_pc, snap,
                   genVars, combVars>>

\* Something else writes the file at the path.
PutForeignFile ==
    /\ persist_pc = "ready"
    /\ disk.kind = "missing"
    /\ disk' \in ForeignFiles
    /\ UNCHANGED <<vocab, crackVars, codecVars, pcfgVars, load_state_only, load_result, persist_pc, snap,
                   genVars, combVars>>

\* PCFGLite.load(path, state_only)
Load ==
    /\ persist_pc = "ready"
    /\ \E state_only \in BOOLEAN :
          /\ load_state_only' = state_only
          /\ load_result' = load(disk, state_only)
    /\ persist_pc' = "loaded"
    /\ UNCHANGED <<vocab, crackVars, codecVars, pcfgVars, disk, snap, genVars, combVars>>

\* model.snapshot(top_templates_n, top_words_n, top_digits_n)
Snapshot ==
    /\ persist_pc = "ready"
    /\ snap = NoSnap
    /\ \E args \in SnapArgs :
          snap' = [args |-> args, out |-> snapshot(Model, args[1], args[2], args[3])]
    /\ UNCHANGED <<vocab, crackVars, codecVars, pcfgVars, disk, load_state_only, load_result, persist_pc,
                   genVars, combVars>>

NextPersist == Save \/ PutForeignFile \/ Load \/ Snapshot

SpecPersist == InitPersist /\ [][NextPersist]_vars

\* The file was written by PCFGLite.save in the form the load asks for.
SavedInRequestedForm ==
    \/ load_state_only /\ disk.origin = "save_state"
    \/ ~load_state_only /\ disk.origin = "save_object"

\* The model returned has empty counters.
LoadedEmpty ==
    /\ load_result.outcome = "returned"
    /\ load_result.model.template_counts = <<>>
    /\ load_result.model.total_templates = 0

\* C5: PCFGLite.load never silently returns an empty model: a missing path
\* fails with a not-found error, and an existing file that PCFGLite.save did not
\* write in the requested form (a dict lacking the state keys, a full-object
\* file read with state_only=True) fails with an error of its own instead of
\* returning a model.
C5_LoadFailsOnForeignFile ==
    persist_pc = "loaded" =>
        /\ disk.kind = "missing" => load_result.outcome = "FileNotFoundError"
        /\ (disk.kind # "missing" /\ ~SavedInRequestedForm) =>
              load_result.outcome \notin {"returned", "FileNotFoundError"}

\* What load does guarantee: a missing path raises FileNotFoundError, and with
\* state_only=False anything but a PCFGLite instance raises.
C5_LoadGuarantees ==
    persist_pc = "loaded" =>
        /\ disk.kind = "missing" => load_result.outcome = "FileNotFoundError"
        /\ (~load_state_only /\ disk.kind \notin {"missing", "object"}) =>
              load_result.outcome \in {"TypeError", "UnpicklingError"}
        /\ SavedInRequestedForm =>
              /\ load_result.outcome = "returned"
              /\ load_result.model.template_counts = template_counts
              /\ load_result.model.total_templates = total_templates

\* The counters of a loaded model, as fit_list and trim_slot_counts use them.
Counters(m) ==
    [template_counts |-> m.template_counts, slot_counts |-> m.slot_counts,
     total_templates |-> m.total_templates]

\* A model saved and then loaded in the same form (state dict or full object).
RoundTripped == persist_pc = "loaded" /\ SavedInRequestedForm

\* C19: a model saved and loaded again has the template_counts, slot_counts,
\* total_templates, alpha and do_leet of the model saved, and a further fit or
\* trim gives the same state on the loaded model as on the one saved.
C19_PersistenceRoundTrip ==
    RoundTripped =>
        /\ load_result.outcome = "returned"
        /\ load_result.model = [template_counts |-> template_counts,
                                slot_counts |-> slot_counts,
                                total_templates |-> total_templates,
                                alpha |-> alpha, do_leet |-> do_leet]
        /\ \A pw_list \in Corpora, max_samples \in MaxSamplesArgs, use_voc \in BOOLEAN,
                 trim_top_n \in TrimTopNArgs :
              fit_list(Counters(load_result.model), pw_list, max_samples,
                       load_result.model.do_leet, use_voc, trim_top_n, vocab)
                 = fit_list(Model, pw_list, max_samples, do_leet, use_voc, trim_top_n, vocab)
        /\ \A top_n \in TopNArgs :
              trim_slot_counts(Counters(load_result.model), top_n) = trim_slot_counts(Model, top_n)

\* The model trained on abc123, abc123, xyz9, saved as a state dict and loaded.
C19_Witness ==
    /\ RoundTripped
    /\ load_state_only
    /\ Model = fit_list(EmptyModel, ExampleCorpus, None, do_leet, FALSE, None, vocab)
    /\ load_result.model.total_templates = 3
    /\ "FRAG" \in DOMAIN load_result.model.slot_counts

\* A snapshot of the model has been taken.
Snapped == snap # NoSnap

\* list holds at most n (key, count) pairs of the counter c, in non-increasing
\* count order, each with the count c has for it, no key twice, and no key of
\* c left out has a count strictly greater than one listed.
IsTopList(list, c, n) ==
    /\ Len(list) <= n
    /\ \A i \in 1..(Len(list) - 1) : list[i].n >= list[i + 1].n
    /\ \A i \in DOMAIN list :
          /\ list[i].k \in CounterKeys(c)
          /\ list[i].n = CounterGet(c, list[i].k)
    /\ \A i, j \in DOMAIN list : list[i].k = list[j].k => i = j
    /\ \A o \in CounterKeys(c) \ {list[i].k : i \in DOMAIN list}, i \in DOMAIN list :
          CounterGet(c, o) <= list[i].n

\* C22: snapshot(n_t, n_w, n_d) returns the model's total_templates, its number
\* of distinct templates, and top_templates / top_words / top_digits as lists
\* of at most n_t / n_w / n_d pairs in non-increasing count order with the
\* model's counts, no omitted key counting more than an included one; a second
\* snapshot of the same state is identical.
C22_SnapshotIsTopOfModel ==
    Snapped =>
        /\ snap.out.total_templates = total_templates
        /\ snap.out.unique_templates = Cardinality(CounterKeys(template_counts))
        /\ IsTopList(snap.out.top_templates, template_counts, snap.args[1])
        /\ IsTopList(snap.out.top_words, SlotCounter(slot_counts, "WORD"), snap.args[2])
        /\ IsTopList(snap.out.top_digits, SlotCounter(slot_counts, "DIGITS"), snap.args[3])
        /\ snapshot(Model, snap.args[1], snap.args[2], snap.args[3]) = snap.out

\* snapshot(1, 1, 1) of the model trained on " a", 1!, caB1, xyz9, 1! with the
\* vocabulary: the digit 1 (count 3) is listed, 9 (count 1) is left out.
C22_Witness ==
    /\ Snapped
    /\ snap.args = <<1, 1, 1>>
    /\ SlotCounter(slot_counts, "DIGITS") = <<[k |-> <<"1">>, n |-> 3], [k |-> <<"9">>, n |-> 1]>>
    /\ snap.out.top_digits = <<[k |-> <<"1">>, n |-> 3]>>
    /\ snap.out.top_words = <<[k |-> <<"c","a","b">>, n |-> 1]>>
    /\ snap.out.total_templates = 5

(***************************************************************************)
(* password_generator.py: PasswordGenerator.                               *)
(*                                                                         *)
(* A score is a sum of terms log(count + 1).  The model keeps exp(score),  *)
(* the product of the terms (count + 1): 0.0 is 1, adding log(c + 1) is    *)
(* multiplying by c + 1, and the order of scores is the order of the       *)
(* products.  The arithmetic is exact.                                     *)
(***************************************************************************)
MAX_PASSWORD_LENGTH == 64
GEN_TOP_WORDS == 2000
GEN_TOP_FRAGS == 2000
GEN_TOP_DIGITS == 500
COMMON_SYMBOLS == <<<<"!">>, <<"@">>, <<"#">>, <<"$">>, <<"%">>, <<"&">>, <<"!","!">>, <<"#","#">>>>

\* list[:n] for n >= 0
Take(list, n) == SubSeq(list, 1, Min(n, Len(list)))

\* [key for key, _ in pairs]
Firsts(pairs) == [i \in DOMAIN pairs |-> pairs[i][1]]

\* _build_count_map: the dict filled from the snapshot's top_words, then its
\* top_digits, then the FRAG table; a later assignment to a key replaces the
\* earlier one.
_build_count_map(model_snapshot, frag_counter) ==
    LET entries ==
            [i \in DOMAIN model_snapshot.top_words |->
                [key |-> <<"WORD", model_snapshot.top_words[i][1]>>, n |-> model_snapshot.top_words[i][2]]]
            \o [i \in DOMAIN model_snapshot.top_digits |->
                [key |-> <<"DIGITS", model_snapshot.top_digits[i][1]>>, n |-> model_snapshot.top_digits[i][2]]]
            \o [i \in DOMAIN frag_counter |->
                [key |-> <<"FRAG", frag_counter[i].k>>, n |-> frag_counter[i].n]]
        keys == {entries[i].key : i \in DOMAIN entries}
        last(key) == CHOOSE i \in DOMAIN entries :
                        /\ entries[i].key = key
                        /\ \A j \in DOMAIN entries : entries[j].key = key => j <= i
    IN [key \in keys |-> entries[last(key)].n]

\* PasswordGenerator.__init__: [top_words, top_digits, top_frags, count_map]
NewGenerator(model_snapshot, frag_counter) ==
    [top_words |-> Take(Firsts(model_snapshot.top_words), GEN_TOP_WORDS),
     top_digits |-> Take(Firsts(model_snapshot.top_digits), GEN_TOP_DIGITS),
     top_frags |-> LET mc == most_common(frag_counter, GEN_TOP_FRAGS)
                   IN [i \in DOMAIN mc |-> mc[i].k],
     count_map |-> _build_count_map(model_snapshot, frag_counter)]

\* self.count_map.get((slot_type, token), 1)
CountOf(cm, slot_type, token) ==
    IF <<slot_type, token>> \in DOMAIN cm THEN cm[<<slot_type, token>>] ELSE 1

\* _partial_score with log(count) for log(count + 1).
_partial_score_LogCount(cm, prefix_score, slot_type, token) ==
    prefix_score * CountOf(cm, slot_type, token)

\* _partial_score: prefix_score + log(count + 1), as products.
_partial_score(cm, prefix_score, slot_type, token) ==
    prefix_score * (CountOf(cm, slot_type, token) + 1)

\* _get_slot_choices
_get_slot_choices(g, slot_type, topk) ==
    IF slot_type = "WORD" THEN Take(g.top_words, topk)
    ELSE IF slot_type = "FRAG" THEN Take(g.top_frags, topk)
    ELSE IF slot_type = "DIGITS" THEN Take(g.top_digits, topk)
    ELSE IF slot_type = "SYMBOL" THEN COMMON_SYMBOLS
    ELSE <<>>

\* list.sort(key=score, reverse=True) on (candidate, score) pairs: stable.
RECURSIVE InsertByScoreDesc(_, _)
InsertByScoreDesc(sorted, e) ==
    IF Len(sorted) = 0 THEN <<e>>
    ELSE IF Head(sorted).score >= e.score
    THEN <<Head(sorted)>> \o InsertByScoreDesc(Tail(sorted), e)
    ELSE <<e>> \o sorted

RECURSIVE SortByScoreDesc(_)
SortByScoreDesc(l) ==
    IF Len(l) = 0 THEN <<>>
    ELSE InsertByScoreDesc(SortByScoreDesc(SubSeq(l, 1, Len(l) - 1)), l[Len(l)])

\* The filter of line 184 letting every candidate through.
LongEnough_All(l, min_len) == l

\* [(cand, score) for cand, score in beam if len(cand) >= min_len]
RECURSIVE LongEnough(_, _)
LongEnough(l, min_len) ==
    IF Len(l) = 0 THEN <<>>
    ELSE IF Len(Head(l).cand) >= min_len THEN <<Head(l)>> \o LongEnough(Tail(l), min_len)
    ELSE LongEnough(Tail(l), min_len)

\* The length test that lets every candidate through.
TooLong_Never(candidate) == FALSE

\* generate_deterministic line 170: "Skip if too long".
TooLong(candidate) == Len(candidate) > MAX_PASSWORD_LENGTH

\* generate_deterministic lines 165-174: the extensions of one prefix.
RECURSIVE ExtendPrefix(_, _, _, _)
ExtendPrefix(cm, entry, slot_type, choices) ==
    IF Len(choices) = 0 THEN <<>>
    ELSE LET candidate == entry.cand \o Head(choices)
             rest == ExtendPrefix(cm, entry, slot_type, Tail(choices))
         IN IF TooLong(candidate) THEN rest
            ELSE <<[cand |-> candidate,
                    score |-> _partial_score(cm, entry.score, slot_type, Head(choices))]>> \o rest

RECURSIVE ExpandBeam(_, _, _, _)
ExpandBeam(cm, beam, slot_type, choices) ==
    IF Len(beam) = 0 THEN <<>>
    ELSE ExtendPrefix(cm, Head(beam), slot_type, choices)
         \o ExpandBeam(cm, Tail(beam), slot_type, choices)

\* The loop over the slots with the break of line 180 returning the beam it
\* had before the slot that emptied it.
RECURSIVE BeamLoop_KeepPrefixes(_, _, _, _, _)
BeamLoop_KeepPrefixes(g, beam, slots, topk_per_slot, prune_beam) ==
    IF Len(slots) = 0 THEN beam
    ELSE LET slot_type == Head(slots)[1]
             choices == _get_slot_choices(g, slot_type, topk_per_slot)
             new_beam == SortByScoreDesc(ExpandBeam(g.count_map, beam, slot_type, choices))
             pruned == Take(new_beam, prune_beam)
         IN IF Len(pruned) = 0 THEN beam
            ELSE BeamLoop_KeepPrefixes(g, pruned, Tail(slots), topk_per_slot, prune_beam)

\* new_beam[:prune_beam] keeping the last prune_beam entries.
Prune_KeepLast(new_beam, prune_beam) ==
    SubSeq(new_beam, Len(new_beam) - Min(prune_beam, Len(new_beam)) + 1, Len(new_beam))

\* generate_deterministic line 178: beam = new_beam[:prune_beam]
Prune(new_beam, prune_beam) == Take(new_beam, prune_beam)

\* generate_deterministic lines 161-181, one record per slot processed: the
\* sorted new_beam of line 177 and the beam kept from it at line 178. The loop
\* ends after the slot that leaves the beam empty.
RECURSIVE BeamSteps(_, _, _, _, _)
BeamSteps(g, beam, slots, topk_per_slot, prune_beam) ==
    IF Len(slots) = 0 THEN <<>>
    ELSE LET slot_type == Head(slots)[1]
             choices == _get_slot_choices(g, slot_type, topk_per_slot)
             new_beam == SortByScoreDesc(ExpandBeam(g.count_map, beam, slot_type, choices))
             pruned == Prune(new_beam, prune_beam)
             step == [slot_type |-> slot_type, new_beam |-> new_beam, beam |-> pruned]
         IN IF Len(pruned) = 0 THEN <<step>>
            ELSE <<step>> \o BeamSteps(g, pruned, Tail(slots), topk_per_slot, prune_beam)

\* generate_deterministic lines 161-181: the loop over the slots, from a beam.
RECURSIVE BeamLoop(_, _, _, _, _)
BeamLoop(g, beam, slots, topk_per_slot, prune_beam) ==
    IF Len(slots) = 0 THEN beam
    ELSE LET slot_type == Head(slots)[1]
             choices == _get_slot_choices(g, slot_type, topk_per_slot)
             new_beam == SortByScoreDesc(ExpandBeam(g.count_map, beam, slot_type, choices))
             pruned == Take(new_beam, prune_beam)
         IN IF Len(pruned) = 0 THEN pruned
            ELSE BeamLoop(g, pruned, Tail(slots), topk_per_slot, prune_beam)

\* generate_deterministic: [exc, out], out the pairs yielded in order.
generate_deterministic(g, template, topk_per_slot, prune_beam, min_len, max_out) ==
    LET parsed == parse_template(template)
        beam == BeamLoop(g, <<[cand |-> <<>>, score |-> 1]>>, parsed.slots,
                         topk_per_slot, prune_beam)
        final == SortByScoreDesc(LongEnough(beam, min_len))
    IN IF parsed.exc # "none" THEN [exc |-> parsed.exc, out |-> <<>>]
       ELSE [exc |-> "none", out |-> Take(final, max_out)]

\* estimate_template_length: the bounds one slot adds, <<min, max>>.
SlotLength(g, slot) ==
    LET slot_type == slot[1]
        n == slot[2]
        first(list, default) == IF Len(list) > 0 THEN Len(list[1]) ELSE default
    IN IF slot_type = "DIGITS"
       THEN IF Truthy(n) THEN <<n, n>> ELSE <<1, first(g.top_digits, 4)>>
       ELSE IF slot_type = "WORD"
       THEN IF Truthy(n) THEN <<n, n>> ELSE <<3, first(g.top_words, 12)>>
       ELSE IF slot_type = "SYMBOL" THEN <<1, 4>>
       ELSE IF slot_type = "FRAG" THEN <<3, first(g.top_frags, 12)>>
       ELSE <<0, 0>>

RECURSIVE SumSlotLengths(_, _)
SumSlotLengths(g, slots) ==
    IF Len(slots) = 0 THEN <<0, 0>>
    ELSE LET h == SlotLength(g, Head(slots))
             t == SumSlotLengths(g, Tail(slots))
         IN <<h[1] + t[1], h[2] + t[2]>>

\* estimate_template_length: [exc, out], out the pair <<min_len, max_len>>.
estimate_template_length(g, template) ==
    LET parsed == parse_template(template)
    IN IF parsed.exc # "none" THEN [exc |-> parsed.exc, out |-> <<0, 0>>]
       ELSE [exc |-> "none", out |-> SumSlotLengths(g, parsed.slots)]

\* generate_stochastic lines 207-209: the weighted (token, count) list of a slot
\* type; a SYMBOL slot draws from COMMON_SYMBOLS instead (line 230).
SlotPool(g, slot_type) ==
    LET tokens == IF slot_type = "WORD" THEN g.top_words
                  ELSE IF slot_type = "FRAG" THEN g.top_frags
                  ELSE g.top_digits
    IN [i \in DOMAIN tokens |->
           [token |-> tokens[i], weight |-> CountOf(g.count_map, slot_type, tokens[i])]]

\* What one draw for a slot can return: sample_from_choices gives "" for an empty
\* list and otherwise any token of positive weight; random.choice any symbol.
DrawOutcomes(g, slot_type) ==
    IF slot_type \in {"WORD", "FRAG", "DIGITS"}
    THEN LET choices == SlotPool(g, slot_type)
         IN IF Len(choices) = 0 THEN {<<>>}
            ELSE {choices[i].token : i \in {j \in DOMAIN choices : choices[j].weight > 0}}
    ELSE Range(COMMON_SYMBOLS)

\* sum(counts) in sample_from_choices
RECURSIVE PoolTotal(_)
PoolTotal(choices) ==
    IF Len(choices) = 0 THEN 0 ELSE Head(choices).weight + PoolTotal(Tail(choices))

\* sample_from_choices line 216, c / total: ZeroDivisionError when a slot of the
\* template has a pool that is not empty and whose counts sum to 0.
SampleRaises(g, slots) ==
    \E i \in DOMAIN slots :
        /\ slots[i][1] \in {"WORD", "FRAG", "DIGITS"}
        /\ Len(SlotPool(g, slots[i][1])) > 0
        /\ PoolTotal(SlotPool(g, slots[i][1])) = 0

\* The sequences that take their i-th element from sets[i].
RECURSIVE Products(_)
Products(sets) ==
    IF Len(sets) = 0 THEN {<<>>}
    ELSE {<<h>> \o t : h \in Head(sets), t \in Products(Tail(sets))}

\* "".join(parts)
RECURSIVE Concat(_)
Concat(parts) == IF Len(parts) = 0 THEN <<>> ELSE Head(parts) \o Concat(Tail(parts))

\* generate_stochastic lines 240-243: the score of the drawn parts, as a product.
RECURSIVE ScoreOfParts(_, _, _)
ScoreOfParts(cm, parts, slots) ==
    IF Len(parts) = 0 \/ Len(slots) = 0 THEN 1
    ELSE (CountOf(cm, Head(slots)[1], Head(parts)) + 1)
         * ScoreOfParts(cm, Tail(parts), Tail(slots))

ResultsKeys(results) == {results[i].cand : i \in DOMAIN results}

\* The update that records every draw, repeated or not.
ResultsPut_NoDedup(results, candidate, score) ==
    Append(results, [cand |-> candidate, score |-> score])

\* The update that keeps the first score a candidate was drawn with.
ResultsPut_KeepFirst(results, candidate, score) ==
    IF candidate \notin ResultsKeys(results)
    THEN Append(results, [cand |-> candidate, score |-> score])
    ELSE results

\* generate_stochastic lines 246-247: keep the best score per candidate.
ResultsPut(results, candidate, score) ==
    IF candidate \notin ResultsKeys(results)
    THEN Append(results, [cand |-> candidate, score |-> score])
    ELSE [i \in DOMAIN results |->
             IF results[i].cand = candidate /\ results[i].score < score
             THEN [cand |-> candidate, score |-> score]
             ELSE results[i]]

\* One iteration of generate_stochastic's sampling loop with the drawn parts.
SampleOnce(g, results, slots, parts, min_len) ==
    LET candidate == Concat(parts)
    IN IF Len(candidate) < min_len THEN results
       ELSE ResultsPut(results, candidate, ScoreOfParts(g.count_map, parts, slots))

(***************************************************************************)
(* Generation: the calls a caller can make on one PasswordGenerator.       *)
(***************************************************************************)
\* Samples a generate_stochastic call draws at most.
MaxDraws == 2

N_pass == <<"p","a","s","s">>
N_cab == <<"c","a","b">>
N_12 == <<"1","2">>
N_34 == <<"3","4">>
N_long == [i \in 1..33 |-> "a"]
N_1 == <<"1">>
N_11 == <<"1","1">>
N_111 == <<"1","1","1">>
N_abcdefg == <<"a","b","c","d","e","f","g">>

\* Snapshots (top_words and top_digits as PCFGLite.snapshot lists them) with
\* the FRAG table loaded beside each.
GenConfigs ==
    {[snapshot |-> [top_words |-> <<<<N_pass, 5>>, <<N_cab, 2>>>>,
                    top_digits |-> <<<<N_12, 5>>, <<N_34, 1>>>>],
      frags |-> <<[k |-> N_abc, n |-> 3], [k |-> <<"x","y">>, n |-> 1]>>],
     [snapshot |-> [top_words |-> <<<<N_pass, 4>>>>,
                    top_digits |-> <<<<N_12, 5>>>>],
      frags |-> <<[k |-> N_abc, n |-> 2]>>],
     [snapshot |-> [top_words |-> <<>>,
                    top_digits |-> <<<<<<"1">>, 1>>>>],
      frags |-> <<[k |-> <<"a","b">>, n |-> 1], [k |-> N_long, n |-> 2]>>],
     [snapshot |-> [top_words |-> <<<<N_cab, 3>>, <<N_pass, 1>>>>,
                    top_digits |-> <<<<N_11, 5>>, <<N_1, 1>>, <<N_111, 1>>>>],
      frags |-> <<[k |-> <<"a","b">>, n |-> 3], [k |-> N_abcdefg, n |-> 1]>>],
     [snapshot |-> [top_words |-> <<>>,
                    top_digits |-> <<<<N_1, 1>>>>],
      frags |-> <<[k |-> <<"z","z">>, n |-> 0]>>]}

T_DIGITS2 == W_DIGITS \o <<"2">>
T_WORD4_DIGITS2 == W_WORD \o <<"4">> \o <<"|">> \o T_DIGITS2
T_FRAG_FRAG == W_FRAG \o <<"|">> \o W_FRAG
T_FRAG_SYMBOL == W_FRAG \o <<"|">> \o W_SYMBOL
T_WORD_FRAG_DIGITS == W_WORD \o <<"4">> \o <<"|">> \o W_FRAG \o <<"|">> \o T_DIGITS2
T_DIGITS2_DIGITS2 == T_DIGITS2 \o <<"|">> \o T_DIGITS2
T_WORD_DIGITS == W_WORD \o <<"|">> \o W_DIGITS

GenTemplates ==
    {T_DIGITS2, T_WORD4_DIGITS2, T_FRAG_FRAG, T_FRAG_SYMBOL, T_WORD_FRAG_DIGITS, <<>>,
     W_DIGITS \o <<"U+00B2">>, W_FRAG, T_DIGITS2_DIGITS2, T_WORD_DIGITS}

TopkArgs == {1, 300}
PruneBeamArgs == {0, 1, 10, 2000}
MinLenArgs == {0, 2, 6}
MaxOutArgs == {0, 1, 5000}

Generator ==
    [top_words |-> top_words, top_digits |-> top_digits, top_frags |-> top_frags,
     count_map |-> count_map]

\* PasswordGenerator(snapshot_path, frag_tsv_path)
InitGen ==
    /\ vocab = {}
    /\ \E cfg \in GenConfigs :
          LET g == NewGenerator(cfg.snapshot, cfg.frags)
          IN /\ top_words = g.top_words
             /\ top_digits = g.top_digits
             /\ top_frags = g.top_frags
             /\ count_map = g.count_map
    /\ gen_call = NoGenCall
    /\ det_out = <<>>
    /\ det_steps = <<>>
    /\ sto_results = <<>>
    /\ sto_drawn = 0
    /\ sto_history = <<>>
    /\ est_out = <<0, 0>>
    /\ sto_out = <<>>
    /\ gen_pc = "ready"
    /\ IdleCodec
    /\ IdlePcfg
    /\ IdlePersist
    /\ IdleComb
    /\ IdleCrack

\* generate_deterministic, run to exhaustion by its consumer.
GenerateDeterministic ==
    /\ gen_pc = "ready"
    /\ \E template \in GenTemplates, topk \in TopkArgs, prune_beam \in PruneBeamArgs,
          min_len \in MinLenArgs, max_out \in MaxOutArgs :
          LET r == generate_deterministic(Generator, template, topk, prune_beam, min_len, max_out)
          IN /\ gen_call' = [op |-> "deterministic", template |-> template,
                             topk_per_slot |-> topk, prune_beam |-> prune_beam,
                             min_len |-> min_len, max_out |-> max_out, n_samples |-> 0,
                             exc |-> r.exc]
             /\ det_out' = r.out
             /\ det_steps' = IF r.exc = "none"
                             THEN BeamSteps(Generator, <<[cand |-> <<>>, score |-> 1]>>,
                                            parse_template(template).slots, topk, prune_beam)
                             ELSE <<>>
    /\ gen_pc' = "det_done"
    /\ UNCHANGED <<vocab, crackVars, codecVars, pcfgVars, persistVars, combVars, top_words, top_digits,
                   top_frags, count_map, sto_results, sto_drawn, sto_history, est_out, sto_out>>

\* generate_stochastic up to its sampling loop (lines 203-217).
StartStochastic ==
    /\ gen_pc = "ready"
    /\ \E template \in GenTemplates, n_samples \in 0..MaxDraws, min_len \in MinLenArgs :
          LET exc == parse_template(template).exc
          IN /\ gen_call' = [op |-> "stochastic", template |-> template,
                             topk_per_slot |-> 0, prune_beam |-> 0, min_len |-> min_len,
                             max_out |-> 0, n_samples |-> n_samples, exc |-> exc]
             /\ gen_pc' = IF exc = "none" THEN "sampling" ELSE "sto_done"
    /\ UNCHANGED <<vocab, crackVars, codecVars, pcfgVars, persistVars, combVars, top_words, top_digits,
                   top_frags, count_map, det_out, det_steps, sto_results, sto_drawn, sto_history, est_out,
                   sto_out>>

\* One iteration of the sampling loop (lines 219-247): the draws are random.
DrawSample ==
    /\ gen_pc = "sampling"
    /\ sto_drawn < gen_call.n_samples
    /\ LET slots == parse_template(gen_call.template).slots
       IN /\ ~SampleRaises(Generator, slots)
          /\ \E parts \in Products([i \in DOMAIN slots |-> DrawOutcomes(Generator, slots[i][1])]) :
                /\ sto_results' = SampleOnce(Generator, sto_results, slots, parts, gen_call.min_len)
                /\ sto_history' = Append(sto_history,
                                         [cand |-> Concat(parts),
                                          score |-> ScoreOfParts(count_map, parts, slots)])
    /\ sto_drawn' = sto_drawn + 1
    /\ UNCHANGED <<vocab, crackVars, codecVars, pcfgVars, persistVars, combVars, top_words, top_digits,
                   top_frags, count_map, gen_call, det_out, det_steps, est_out, sto_out, gen_pc>>

\* An iteration of the sampling loop in which sample_from_choices divides by a
\* zero total (line 216): the exception leaves generate_stochastic.
DrawSampleRaises ==
    /\ gen_pc = "sampling"
    /\ sto_drawn < gen_call.n_samples
    /\ SampleRaises(Generator, parse_template(gen_call.template).slots)
    /\ gen_call' = [gen_call EXCEPT !.exc = "ZeroDivisionError"]
    /\ gen_pc' = "sto_done"
    /\ UNCHANGED <<vocab, crackVars, codecVars, pcfgVars, persistVars, combVars, top_words, top_digits,
                   top_frags, count_map, det_out, det_steps, sto_results, sto_drawn, sto_history, est_out,
                   sto_out>>

\* The return of generate_stochastic (line 250).
ReturnStochastic ==
    /\ gen_pc = "sampling"
    /\ sto_drawn = gen_call.n_samples
    /\ sto_out' = SortByScoreDesc(sto_results)
    /\ gen_pc' = "sto_done"
    /\ UNCHANGED <<vocab, crackVars, codecVars, pcfgVars, persistVars, combVars, top_words, top_digits,
                   top_frags, count_map, gen_call, det_out, det_steps, sto_results, sto_drawn, sto_history,
                   est_out>>

\* estimate_template_length(template)
EstimateTemplateLength ==
    /\ gen_pc = "ready"
    /\ \E template \in GenTemplates :
          LET r == estimate_template_length(Generator, template)
          IN /\ gen_call' = [op |-> "estimate", template |-> template,
                             topk_per_slot |-> 0, prune_beam |-> 0, min_len |-> 0,
                             max_out |-> 0, n_samples |-> 0, exc |-> r.exc]
             /\ est_out' = r.out
    /\ gen_pc' = "est_done"
    /\ UNCHANGED <<vocab, crackVars, codecVars, pcfgVars, persistVars, combVars, top_words, top_digits,
                   top_frags, count_map, det_out, det_steps, sto_results, sto_drawn, sto_history, sto_out>>

NextGen ==
    \/ GenerateDeterministic
    \/ StartStochastic
    \/ DrawSample
    \/ DrawSampleRaises
    \/ ReturnStochastic
    \/ EstimateTemplateLength

SpecGen == InitGen /\ [][NextGen]_vars

(***************************************************************************)
(* Properties of generation.                                               *)
(***************************************************************************)
DetDone == gen_pc = "det_done" /\ gen_call.exc = "none"

\* C3: every candidate generate_deterministic yields has length at most
\* MAX_PASSWORD_LENGTH and at least min_len, whatever the template, the pools
\* and topk_per_slot, prune_beam, min_len, max_out.
C3_DeterministicLengthBounds ==
    DetDone =>
        \A i \in DOMAIN det_out :
            /\ Len(det_out[i].cand) <= MAX_PASSWORD_LENGTH
            /\ Len(det_out[i].cand) >= gen_call.min_len

\* FRAG|FRAG over the pool {ab, a*33} with min_len 6: the 66-character and the
\* 4-character combination are dropped, the two of 35 characters are yielded.
C3_Witness ==
    /\ DetDone
    /\ gen_call.template = T_FRAG_FRAG
    /\ gen_call.min_len = 6
    /\ top_frags = <<N_long, <<"a","b">>>>
    /\ Len(det_out) = 2
    /\ \A i \in DOMAIN det_out : Len(det_out[i].cand) = 35

\* The token choices of each slot of the call's template.
SlotChoiceSets ==
    LET slots == parse_template(gen_call.template).slots
    IN [i \in DOMAIN slots |->
           Range(_get_slot_choices(Generator, slots[i][1], gen_call.topk_per_slot))]

\* C9: generate_deterministic yields at most max_out pairs, in non-increasing
\* score order, each score the sum over the candidate's tokens (one per slot) of
\* log(count + 1), here the product of the count + 1.  Template DIGITS2 with the
\* digit pool {12: 5, 34: 1}, beam 10, min_len 2 yields 12 then 34, 12 scoring
\* strictly higher.
C9_DeterministicOutputOrderedAndScored ==
    DetDone =>
        /\ Len(det_out) <= gen_call.max_out
        /\ \A i \in 1..(Len(det_out) - 1) : det_out[i].score >= det_out[i + 1].score
        /\ \A i \in DOMAIN det_out :
              \E parts \in Products(SlotChoiceSets) :
                  /\ Concat(parts) = det_out[i].cand
                  /\ ScoreOfParts(count_map, parts, parse_template(gen_call.template).slots)
                        = det_out[i].score
        /\ ( /\ gen_call.template = T_DIGITS2
             /\ top_digits = <<N_12, N_34>>
             /\ gen_call.topk_per_slot = 300
             /\ gen_call.prune_beam = 10
             /\ gen_call.min_len = 2
             /\ gen_call.max_out = 5000 ) =>
                 /\ det_out = <<[cand |-> N_12, score |-> 5 + 1], [cand |-> N_34, score |-> 1 + 1]>>
                 /\ det_out[1].score > det_out[2].score

\* The DIGITS2 example of the claim.
C9_Witness ==
    /\ DetDone
    /\ gen_call.template = T_DIGITS2
    /\ top_digits = <<N_12, N_34>>
    /\ gen_call.prune_beam = 10
    /\ gen_call.min_len = 2
    /\ gen_call.max_out = 5000
    /\ Len(det_out) = 2

StoDone == gen_pc = "sto_done" /\ gen_call.exc = "none"

\* Every slot of the call's template draws from a pool of exactly one token.
SingleTokenPools ==
    LET slots == parse_template(gen_call.template).slots
    IN \A i \in DOMAIN slots :
          /\ slots[i][1] \in {"WORD", "FRAG", "DIGITS"}
          /\ Len(SlotPool(Generator, slots[i][1])) = 1

\* The one token of each slot's pool, in slot order.
OnlyTokens ==
    LET slots == parse_template(gen_call.template).slots
    IN [i \in DOMAIN slots |-> SlotPool(Generator, slots[i][1])[1].token]

ScoresDrawn(cand) ==
    {sto_history[k].score : k \in {j \in DOMAIN sto_history : sto_history[j].cand = cand}}

\* C11: whatever the draws, the list generate_stochastic returns holds each
\* candidate string at most once, with the maximum score over the draws that
\* produced it; holds every drawn string of length >= min_len and none shorter;
\* has at most n_samples entries; and is in non-increasing score order.
C11_StochasticOutput ==
    StoDone =>
        /\ \A i, j \in DOMAIN sto_out : sto_out[i].cand = sto_out[j].cand => i = j
        /\ \A i \in DOMAIN sto_out :
              /\ sto_out[i].score \in ScoresDrawn(sto_out[i].cand)
              /\ \A sc \in ScoresDrawn(sto_out[i].cand) : sc <= sto_out[i].score
              /\ Len(sto_out[i].cand) >= gen_call.min_len
        /\ \A k \in DOMAIN sto_history :
              Len(sto_history[k].cand) >= gen_call.min_len =>
                  \E i \in DOMAIN sto_out : sto_out[i].cand = sto_history[k].cand
        /\ Len(sto_out) <= gen_call.n_samples
        /\ \A i \in 1..(Len(sto_out) - 1) : sto_out[i].score >= sto_out[i + 1].score

\* DIGITS2|DIGITS2 over the digit pool {11: 5, 1: 1, 111: 1}: 1111 drawn first as
\* 1 + 111 (score log 2 + log 2) and then as 11 + 11 (log 6 + log 6) is returned
\* once, with the second score.
C11_Witness ==
    /\ StoDone
    /\ gen_call.template = T_DIGITS2_DIGITS2
    /\ gen_call.n_samples = 2
    /\ sto_history = <<[cand |-> <<"1","1","1","1">>, score |-> 4],
                       [cand |-> <<"1","1","1","1">>, score |-> 36]>>
    /\ sto_out = <<[cand |-> <<"1","1","1","1">>, score |-> 36]>>

(***************************************************************************)
(* password_generator.py: combine_and_dedupe_candidates.  A candidate file *)
(* is the sequence of its lines, each without its line terminator; a path  *)
(* that does not exist is MissingFile.                                     *)
(***************************************************************************)
MissingFile == [exists |-> FALSE, lines |-> <<>>]
FileOf(lines) == [exists |-> TRUE, lines |-> lines]

\* str < str: by code point, a proper prefix first.
RECURSIVE StrLess(_, _)
StrLess(a, b) ==
    IF Len(b) = 0 THEN FALSE
    ELSE IF Len(a) = 0 THEN TRUE
    ELSE IF Ord(Head(a)) # Ord(Head(b)) THEN Ord(Head(a)) < Ord(Head(b))
    ELSE StrLess(Tail(a), Tail(b))

\* sorted(set of str)
RECURSIVE Sorted(_)
Sorted(strs) ==
    IF strs = {} THEN <<>>
    ELSE LET least == CHOOSE x \in strs : \A y \in strs \ {x} : StrLess(x, y)
         IN <<least>> \o Sorted(strs \ {least})

\* The candidate taken with one character too many removed from its end.
CandidateOf_Chop(line) == SubSeq(Strip(line), 1, Len(Strip(line)) - 1)

\* combine_and_dedupe_candidates line 363: candidate = line.strip()
CandidateOf(line) == Strip(line)

\* Lines 356-365: the set unique_candidates after the loop over the input files.
RECURSIVE CollectCandidates(_, _)
CollectCandidates(unique_candidates, input_files) ==
    IF Len(input_files) = 0 THEN unique_candidates
    ELSE LET f == Head(input_files)
             found == IF f.exists
                      THEN {CandidateOf(f.lines[i]) : i \in DOMAIN f.lines} \ {<<>>}
                      ELSE {}
         IN CollectCandidates(unique_candidates \cup found, Tail(input_files))

\* combine_and_dedupe_candidates: [out, count], out the lines written.
combine_and_dedupe_candidates(input_files) ==
    LET unique_candidates == CollectCandidates({}, input_files)
    IN [out |-> Sorted(unique_candidates), count |-> Cardinality(unique_candidates)]

\* Lines an input file holds at most.
MaxFileLines == 2

CandidateLines == {<<>>, <<" ">>, <<"a","b">>, <<" ","a","b">>, <<"B">>}

RECURSIVE SeqsUpTo(_, _)
SeqsUpTo(elems, n) ==
    IF n = 0 THEN {<<>>}
    ELSE LET shorter == SeqsUpTo(elems, n - 1)
         IN shorter \cup {Append(q, e) : q \in {t \in shorter : Len(t) = n - 1}, e \in elems}

CandidateFiles == {MissingFile} \cup {FileOf(l) : l \in SeqsUpTo(CandidateLines, MaxFileLines)}

InitComb ==
    /\ vocab = {}
    /\ comb_inputs \in {<<f, g>> : f \in CandidateFiles, g \in CandidateFiles}
    /\ comb_out = <<>>
    /\ comb_count = 0
    /\ comb_prev = <<>>
    /\ comb_pc = "ready"
    /\ IdleCodec
    /\ IdlePcfg
    /\ IdlePersist
    /\ IdleGen
    /\ IdleCrack

\* combine_and_dedupe_candidates(input_files, output_path)
Combine ==
    /\ comb_pc = "ready"
    /\ LET r == combine_and_dedupe_candidates(comb_inputs)
       IN /\ comb_out' = r.out
          /\ comb_count' = r.count
    /\ comb_pc' = "combined"
    /\ UNCHANGED <<vocab, crackVars, codecVars, pcfgVars, persistVars, genVars, comb_inputs, comb_prev>>

\* A further combine whose input is the previous output, alone or listed twice.
Recombine ==
    /\ comb_pc = "combined"
    /\ \E again \in {<<FileOf(comb_out)>>, <<FileOf(comb_out), FileOf(comb_out)>>,
                     <<MissingFile, FileOf(comb_out)>>} :
          LET r == combine_and_dedupe_candidates(again)
          IN /\ comb_inputs' = again
             /\ comb_out' = r.out
             /\ comb_count' = r.count
    /\ comb_prev' = comb_out
    /\ comb_pc' = "recombined"
    /\ UNCHANGED <<vocab, crackVars, codecVars, pcfgVars, persistVars, genVars>>

NextComb == Combine \/ Recombine

SpecComb == InitComb /\ [][NextComb]_vars

(***************************************************************************)
(* Properties of the combiner.                                             *)
(***************************************************************************)
\* The lines of the input files that exist, blank lines (empty or all
\* whitespace: no candidate on them) left out.
LinesOfInputs ==
    LET all == UNION {Range(comb_inputs[i].lines) :
                         i \in {j \in DOMAIN comb_inputs : comb_inputs[j].exists}}
    IN {l \in all : Strip(l) # <<>>}

StrictlyIncreasing(lines) == \A i \in 1..(Len(lines) - 1) : StrLess(lines[i], lines[i + 1])

\* C6: combine_and_dedupe_candidates writes exactly the set of strings that
\* occur as a line of an existing input file, each unchanged and once, in
\* strictly increasing lexicographic order; a missing input is skipped and the
\* count returned is the number of lines written.
C6_CombineWritesTheLines ==
    comb_pc = "combined" =>
        /\ Range(comb_out) = LinesOfInputs
        /\ StrictlyIncreasing(comb_out)
        /\ comb_count = Len(comb_out)

\* What the code writes: the whitespace-stripped lines that are not empty, each
\* once, in strictly increasing order; the count is the number of lines.
C6_CombineWritesStrippedLines ==
    comb_pc = "combined" =>
        /\ Range(comb_out) = {Strip(l) : l \in LinesOfInputs}
        /\ StrictlyIncreasing(comb_out)
        /\ comb_count = Len(comb_out)

\* C7: the combiner is idempotent: a combine run on the output of a previous
\* combine (alone, or listed twice) writes the same lines in the same order.
C7_CombineIdempotent ==
    comb_pc = "recombined" => (comb_out = comb_prev /\ comb_count = Len(comb_prev))

\* A first combine that stripped, deduplicated and sorted two files into the
\* lines B, ab; the combine of that output listed twice wrote them again.
C7_Witness ==
    /\ comb_pc = "recombined"
    /\ Len(comb_inputs) = 2
    /\ comb_inputs[1].exists
    /\ comb_prev = <<<<"B">>, <<"a","b">>>>
    /\ comb_out = comb_prev

(***************************************************************************)
(* Properties of the choice pools and of the length estimate.              *)
(***************************************************************************)
\* The slots of the template of the call.
CallSlots == parse_template(gen_call.template).slots

\* The stochastic call has ended, by a return or by an exception.
StoEnded == gen_call.op = "stochastic" /\ gen_pc = "sto_done"

\* What the samples of a call can be when each slot with an empty pool gives the
\* empty token and every other slot one of the tokens of its pool.
SamplesWithEmptyTokens ==
    LET slot_tokens(slot_type) ==
            IF slot_type = "SYMBOL" THEN Range(COMMON_SYMBOLS)
            ELSE IF Len(SlotPool(Generator, slot_type)) = 0 THEN {<<>>}
            ELSE {SlotPool(Generator, slot_type)[k].token :
                     k \in DOMAIN SlotPool(Generator, slot_type)}
    IN {Concat(parts) :
           parts \in Products([i \in DOMAIN CallSlots |-> slot_tokens(CallSlots[i][1])])}

\* A slot of the template draws from an empty pool.
SomePoolEmpty ==
    \E i \in DOMAIN CallSlots :
        /\ CallSlots[i][1] \in {"WORD", "FRAG", "DIGITS"}
        /\ Len(SlotPool(Generator, CallSlots[i][1])) = 0

\* C16: in generate_stochastic a slot whose pool is empty gives the empty token
\* in every sample and the call returns; in every pool that is not empty each
\* weight before normalization is at least 1, and the normalization never
\* divides by zero.
C16_PoolsNeverRaise ==
    (StoEnded /\ gen_call.exc # "ValueError") =>
        /\ gen_call.exc = "none"
        /\ \A k \in DOMAIN sto_history : sto_history[k].cand \in SamplesWithEmptyTokens
        /\ \A i \in DOMAIN CallSlots :
              (gen_call.n_samples > 0 /\ CallSlots[i][1] \in {"WORD", "FRAG", "DIGITS"}) =>
                  \A k \in DOMAIN SlotPool(Generator, CallSlots[i][1]) :
                      SlotPool(Generator, CallSlots[i][1])[k].weight >= 1

\* An empty pool does give the empty token in every sample, and the call
\* returns unless a pool of the template has counts that sum to 0.
C16_EmptyPoolGivesEmptyToken ==
    StoEnded =>
        /\ \A k \in DOMAIN sto_history : sto_history[k].cand \in SamplesWithEmptyTokens
        /\ gen_call.exc = "ZeroDivisionError" <=>
              (gen_call.n_samples > 0 /\ parse_template(gen_call.template).exc = "none"
                  /\ SampleRaises(Generator, CallSlots))
        /\ (gen_call.exc = "none" /\ SomePoolEmpty /\ gen_call.min_len = 0)
              => Len(sto_out) <= Len(sto_history) /\ (gen_call.n_samples > 0 => Len(sto_out) > 0)

\* estimate_template_length has returned.
EstDone == gen_pc = "est_done" /\ gen_call.exc = "none"

\* Length of the longest token of a list; for an empty list, which has no
\* longest token, the default the code falls back on.
Longest(list, default) ==
    IF Len(list) = 0 THEN default
    ELSE CHOOSE n \in {Len(list[i]) : i \in DOMAIN list} :
             \A i \in DOMAIN list : Len(list[i]) <= n

\* The bounds the claim gives one slot, <<min, max>>.
ClaimedSlotLength(slot) ==
    IF slot[2] # None /\ slot[1] \in {"WORD", "DIGITS"} THEN <<slot[2], slot[2]>>
    ELSE IF slot[1] = "WORD" THEN <<3, Longest(top_words, 12)>>
    ELSE IF slot[1] = "DIGITS" THEN <<1, Longest(top_digits, 4)>>
    ELSE IF slot[1] = "FRAG" THEN <<3, Longest(top_frags, 12)>>
    ELSE <<1, 4>>

RECURSIVE SumOfPairs(_)
SumOfPairs(pairs) ==
    IF Len(pairs) = 0 THEN <<0, 0>>
    ELSE <<Head(pairs)[1] + SumOfPairs(Tail(pairs))[1],
           Head(pairs)[2] + SumOfPairs(Tail(pairs))[2]>>

ClaimedEstimate == SumOfPairs([i \in DOMAIN CallSlots |-> ClaimedSlotLength(CallSlots[i])])

\* C17: estimate_template_length returns the sum over the slots of per-slot
\* bounds: N and N for a slot with an embedded length N; otherwise 3 .. longest
\* known word for WORD, 1 .. longest known digit string for DIGITS, 3 .. longest
\* known fragment for FRAG, 1 .. 4 for SYMBOL; and min <= max.
C17_EstimateIsSumOfSlotBounds ==
    EstDone =>
        /\ est_out = ClaimedEstimate
        /\ est_out[1] <= est_out[2]

\* The first token of each list the template uses without an embedded length
\* is a longest one of the list, and no shorter than the slot's minimum.
FirstTokensAreLongest ==
    \A i \in DOMAIN CallSlots :
        LET list == IF CallSlots[i][1] = "WORD" THEN top_words
                    ELSE IF CallSlots[i][1] = "DIGITS" THEN top_digits
                    ELSE IF CallSlots[i][1] = "FRAG" THEN top_frags
                    ELSE <<>>
        IN (Len(list) > 0 /\ ~Truthy(CallSlots[i][2])) =>
              /\ Len(list[1]) = Longest(list, 0)
              /\ Len(list[1]) >= ClaimedSlotLength(CallSlots[i])[1]

\* The estimate is the claimed one where the most frequent token of each list
\* is also the longest.
C17_EstimateWhenFirstIsLongest ==
    (EstDone /\ FirstTokensAreLongest) =>
        /\ est_out = ClaimedEstimate
        /\ est_out[1] <= est_out[2]

MIN_PASSWORD_LENGTH == 6

\* generate_candidates_deterministic lines 270-274: the template of the call is
\* left out of capable_templates.
ExcludedByPrefilter ==
    estimate_template_length(Generator, gen_call.template).out[2] < MIN_PASSWORD_LENGTH

\* C18: a template the pre-filter excludes (estimated max below
\* MIN_PASSWORD_LENGTH) yields no candidate of length >= MIN_PASSWORD_LENGTH:
\* generate_deterministic and generate_stochastic run on it with the same pools
\* and min_len = MIN_PASSWORD_LENGTH emit nothing.
C18_PrefilterSound ==
    ((DetDone \/ StoDone) /\ gen_call.min_len = MIN_PASSWORD_LENGTH /\ ExcludedByPrefilter) =>
        /\ DetDone => det_out = <<>>
        /\ StoDone => sto_out = <<>>

\* Every token a slot with an embedded length N can take has at most N characters.
FixedSlotsFit ==
    \A i \in DOMAIN CallSlots :
        Truthy(CallSlots[i][2]) =>
            \A k \in DOMAIN SlotPool(Generator, CallSlots[i][1]) :
                Len(SlotPool(Generator, CallSlots[i][1])[k].token) <= CallSlots[i][2]

\* The pre-filter is sound for the templates whose estimate is an upper bound.
C18_SoundWhenEstimateBounds ==
    ((DetDone \/ StoDone) /\ gen_call.min_len = MIN_PASSWORD_LENGTH /\ ExcludedByPrefilter
        /\ FirstTokensAreLongest /\ FixedSlotsFit) =>
        /\ DetDone => det_out = <<>>
        /\ StoDone => sto_out = <<>>

(***************************************************************************)
(* Properties of the beam of generate_deterministic.                       *)
(***************************************************************************)

\* How many times the pair e occurs in the list l.
CountIn(l, e) == Cardinality({i \in DOMAIN l : l[i] = e})

\* The pairs of a step's new_beam that pruning left out: those the beam holds
\* fewer times than new_beam does.
Discarded(step) ==
    {step.new_beam[i] : i \in {j \in DOMAIN step.new_beam :
        CountIn(step.new_beam, step.new_beam[j]) > CountIn(step.beam, step.new_beam[j])}}

\* C23: after each slot the beam holds at most prune_beam partial candidates,
\* taken from the expansion of that slot, and each one kept scores at least as
\* much as each one of the same expansion that pruning discarded.
C23_PruneKeepsBest ==
    DetDone =>
        \A s \in DOMAIN det_steps :
            LET step == det_steps[s]
            IN /\ Len(step.beam) <= gen_call.prune_beam
               /\ \A i \in DOMAIN step.beam :
                     CountIn(step.beam, step.beam[i]) <= CountIn(step.new_beam, step.beam[i])
               /\ \A i \in DOMAIN step.beam, d \in Discarded(step) :
                     step.beam[i].score >= d.score

\* WORD|DIGITS with prune_beam = 1 over words cab, pass and digits 11, 1, 111:
\* the first step keeps cab (score 4) and discards pass (score 2), the second
\* keeps cab11 (score 24) and discards cab1 and cab111 (score 8 each).
C23_Witness ==
    /\ DetDone
    /\ gen_call.template = T_WORD_DIGITS
    /\ gen_call.prune_beam = 1
    /\ gen_call.topk_per_slot = 300
    /\ top_words = <<N_cab, N_pass>>
    /\ Len(det_steps) = 2
    /\ det_steps[1].beam = <<[cand |-> N_cab, score |-> 4]>>
    /\ Discarded(det_steps[1]) = {[cand |-> N_pass, score |-> 2]}
    /\ det_steps[2].beam = <<[cand |-> N_cab \o N_11, score |-> 24]>>
    /\ Discarded(det_steps[2]) = {[cand |-> N_cab \o N_1, score |-> 8],
                                  [cand |-> N_cab \o N_111, score |-> 8]}

\* The template's slots of the finished call, and the choices of each.
DetSlots == parse_template(gen_call.template).slots

DetChoices(i) == _get_slot_choices(Generator, DetSlots[i][1], gen_call.topk_per_slot)

\* cand is one token of each slot's choices, concatenated in slot order.
OneTokenPerSlot(cand) ==
    \E parts \in Products([i \in DOMAIN DetSlots |-> {DetChoices(i)[j] : j \in DOMAIN DetChoices(i)}]) :
        Concat(parts) = cand

\* The beam became empty while a slot was processed.
BeamEmptied == \E s \in DOMAIN det_steps : Len(det_steps[s].beam) = 0

\* C24: when the beam becomes empty at a slot, that slot is the last one
\* processed, the call ends without raising and yields nothing; and whatever a
\* call yields is one token per slot of the template in slot order, never a
\* prefix left from an earlier slot.
C24_EmptyBeamStopsCleanly ==
    (gen_pc = "det_done" /\ parse_template(gen_call.template).exc = "none") =>
        /\ gen_call.exc = "none"
        /\ \A s \in DOMAIN det_steps : Len(det_steps[s].beam) = 0 => s = Len(det_steps)
        /\ BeamEmptied => det_out = <<>>
        /\ ~BeamEmptied => Len(det_steps) = Len(DetSlots)
        /\ \A i \in DOMAIN det_out : OneTokenPerSlot(det_out[i].cand)
        /\ \A i \in DOMAIN det_out :
              \E j \in DOMAIN det_steps[Len(det_steps)].beam :
                  det_steps[Len(det_steps)].beam[j] = det_out[i]

\* WORD4|FRAG|DIGITS2 on a generator without words: the beam is empty after
\* the first of three slots, the loop stops there and nothing is yielded,
\* although the FRAG and DIGITS pools are not empty.
C24_Witness ==
    /\ DetDone
    /\ gen_call.template = T_WORD_FRAG_DIGITS
    /\ gen_call.prune_beam = 2000
    /\ gen_call.min_len = 0
    /\ top_words = <<>>
    /\ Len(top_frags) > 0
    /\ Len(top_digits) > 0
    /\ Len(DetSlots) = 3
    /\ Len(det_steps) = 1
    /\ det_steps[1].new_beam = <<>>
    /\ det_out = <<>>

(***************************************************************************)
(* Conformance of the generated candidates to their template.              *)
(***************************************************************************)

\* cand is one token from each of the given per-slot token sets, in slot order,
\* the token of every slot with an embedded length N having length N.
ConformsTo(cand, token_sets) ==
    \E parts \in Products(token_sets) :
        /\ Concat(parts) = cand
        /\ \A i \in DOMAIN CallSlots :
              Truthy(CallSlots[i][2]) => Len(parts[i]) = CallSlots[i][2]

\* The (min, max) range estimate_template_length returns for the call's template.
CallEstimate == estimate_template_length(Generator, gen_call.template).out

\* C25: every candidate generate_deterministic yields and every sample
\* generate_stochastic draws has, in each slot with an embedded length N, a
\* token of length N, and a length within the range estimate_template_length
\* returns for the template.
C25_CandidatesConformToTemplate ==
    /\ DetDone =>
          \A i \in DOMAIN det_out :
              /\ ConformsTo(det_out[i].cand,
                            [s \in DOMAIN CallSlots |-> Range(DetChoices(s))])
              /\ CallEstimate[1] <= Len(det_out[i].cand)
              /\ Len(det_out[i].cand) <= CallEstimate[2]
    /\ (gen_call.op = "stochastic" /\ gen_call.exc = "none") =>
          \A i \in DOMAIN sto_history :
              /\ ConformsTo(sto_history[i].cand,
                            [s \in DOMAIN CallSlots |-> DrawOutcomes(Generator, CallSlots[s][1])])
              /\ CallEstimate[1] <= Len(sto_history[i].cand)
              /\ Len(sto_history[i].cand) <= CallEstimate[2]

(***************************************************************************)
(* Slot-token counts against the slots of the counted templates.           *)
(***************************************************************************)

\* The number of slots of type slot_type in the templates counted by the
\* template table tc, each template taken as many times as it was counted.
RECURSIVE SlotsCounted(_, _)
SlotsCounted(tc, slot_type) ==
    IF Len(tc) = 0 THEN 0
    ELSE LET slots == parse_template(Head(tc).k).slots
         IN Head(tc).n * Cardinality({i \in DOMAIN slots : slots[i][1] = slot_type})
            + SlotsCounted(Tail(tc), slot_type)

\* The model holds what one fit_list without trimming put into a fresh model.
FittedOnceUntrimmed ==
    /\ ops_done = 1
    /\ first_call.op = "fit_list"
    /\ first_call.trim_top_n = None

\* C26: the slot-token increments of a fit correspond one-to-one, in slot type,
\* to the slots of the templates counted: for each slot type as many token
\* increments as the counted templates have slots of that type.
C26_IncrementsMatchTemplateSlots ==
    FittedOnceUntrimmed =>
        \A s \in {"WORD", "FRAG", "DIGITS", "SYMBOL"} :
            CounterSum(SlotCounter(slot_counts, s)) = SlotsCounted(template_counts, s)

\* The correspondence holds when no password of the fit has leading or
\* trailing whitespace.
C26_MatchWithoutPadding ==
    (FittedOnceUntrimmed
     /\ \A i \in DOMAIN LinesReached(first_call) :
           Strip(LinesReached(first_call)[i]) = LinesReached(first_call)[i]) =>
        \A s \in {"WORD", "FRAG", "DIGITS", "SYMBOL"} :
            CounterSum(SlotCounter(slot_counts, s)) = SlotsCounted(template_counts, s)

(***************************************************************************)
(* Completeness of the beam search.                                        *)
(***************************************************************************)

\* The choices of one token per slot from the top-K pools whose concatenation
\* has a length allowed by min_len and MAX_PASSWORD_LENGTH.
ValidCombos ==
    {parts \in Products([s \in DOMAIN DetSlots |-> Range(DetChoices(s))]) :
        /\ gen_call.min_len <= Len(Concat(parts))
        /\ Len(Concat(parts)) <= MAX_PASSWORD_LENGTH}

\* The first candidate yielded scores as much as the best length-valid combination.
FirstIsBestValid ==
    /\ Len(det_out) >= 1
    /\ \A parts \in ValidCombos :
          det_out[1].score >= ScoreOfParts(count_map, parts, DetSlots)
    /\ \E parts \in ValidCombos :
          /\ Concat(parts) = det_out[1].cand
          /\ ScoreOfParts(count_map, parts, DetSlots) = det_out[1].score

\* A deterministic call with prune_beam >= 1 and max_out >= 1 for which some
\* length-valid combination exists.
ValidComboExists ==
    /\ DetDone
    /\ gen_call.prune_beam >= 1
    /\ gen_call.max_out >= 1
    /\ ValidCombos # {}

\* C27 as stated: whenever a length-valid combination exists (prune_beam >= 1,
\* max_out >= 1), generate_deterministic yields a candidate and the first one
\* has the maximum score among the length-valid combinations.
C27_BeamSearchComplete == ValidComboExists => FirstIsBestValid

\* No step of the call discarded a partial candidate by pruning.
NothingPruned ==
    \A s \in DOMAIN det_steps : Len(det_steps[s].new_beam) <= gen_call.prune_beam

\* C27 amended: the search is complete when prune_beam is large enough that no
\* step discards a partial candidate: then a length-valid combination gives
\* at least one candidate, the first having the maximum score among them.
C27_CompleteWhenNothingPruned == (ValidComboExists /\ NothingPruned) => FirstIsBestValid

\* WORD|DIGITS with min_len = 6 and prune_beam = 2000 over words cab (3), pass
\* (1) and digits 11 (5), 1, 111: the best combination, cab11, is too short;
\* pass11 (score 2 * 6) is yielded first, ahead of cab111 (score 4 * 2).
C27_Witness ==
    /\ ValidComboExists
    /\ NothingPruned
    /\ gen_call.template = T_WORD_DIGITS
    /\ gen_call.min_len = 6
    /\ gen_call.topk_per_slot = 300
    /\ top_words = <<N_cab, N_pass>>
    /\ Len(det_out) >= 2
    /\ det_out[1] = [cand |-> N_pass \o N_11, score |-> 12]
    /\ det_out[2] = [cand |-> N_cab \o N_111, score |-> 8]

(***************************************************************************)
(* The leet-normalisation flag.                                            *)
(***************************************************************************)

\* A password has been tokenized.
Tokenized == codec_pc = "tokenized"

\* C28: classify_run on every run of the password, tokenize on the password,
\* and the counters of a model trained on it are the same with do_leet = TRUE
\* as with do_leet = FALSE.
C28_LeetFlagHasNoEffect ==
    Tokenized =>
        /\ tok_result = tokenize(password, ~do_leet_arg, use_vocab_arg, vocab)
        /\ \A r \in Range(FindRuns(password)) \cup {password} :
              classify_run(r, TRUE, use_vocab_arg, vocab)
                  = classify_run(r, FALSE, use_vocab_arg, vocab)
        /\ fit_list(EmptyModel, <<password, password>>, None, TRUE, use_vocab_arg, None, vocab)
              = fit_list(EmptyModel, <<password, password>>, None, FALSE, use_vocab_arg, None, vocab)

\* Pass1! tokenized with do_leet = TRUE: the letter run is lowered to pass and
\* the leet keys 1 and ! stay as they are, each in a run of its own.
C28_Witness ==
    /\ Tokenized
    /\ do_leet_arg
    /\ password = <<"P","a","s","s","1","!">>
    /\ tok_result.tokens = <<N_pass, <<"1">>, <<"!">>>>

(***************************************************************************)
(* Normalisation of the smoothed distributions.                            *)
(***************************************************************************)

\* A template and a token no training input of the model produces.
UnseenTemplate == <<"U","N","S","E","E","N">>

UnseenToken == <<"u","n","s","e","e","n">>

\* The rationals ps, each <<numerator, denominator>>, share the positive
\* denominator of the rational q and, together with q, sum to 1.
RECURSIVE NumeratorSum(_)
NumeratorSum(ps) == IF Len(ps) = 0 THEN 0 ELSE Head(ps)[1] + NumeratorSum(Tail(ps))

SumToOneWith(ps, q) ==
    /\ q[2] > 0
    /\ \A i \in DOMAIN ps : ps[i][2] = q[2]
    /\ NumeratorSum(ps) + q[1] = q[2]

\* C29: with alpha > 0, template_prob over the V distinct templates seen plus
\* template_prob of one unseen template sum to exactly 1, and so does
\* slot_token_prob over the tokens of each slot type plus one unseen token, in
\* every state of the model, also after trimming.
C29_DistributionsNormalized ==
    /\ alpha[1] > 0 /\ alpha[2] > 0
    /\ UnseenTemplate \notin CounterKeys(template_counts)
    /\ SumToOneWith([i \in DOMAIN template_counts |->
                        template_prob(Model, alpha, template_counts[i].k)],
                    template_prob(Model, alpha, UnseenTemplate))
    /\ \A s \in DOMAIN slot_counts \cup {"WORD", "FRAG", "DIGITS", "SYMBOL"} :
          LET counter == SlotCounter(slot_counts, s)
          IN /\ UnseenToken \notin CounterKeys(counter)
             /\ SumToOneWith([i \in DOMAIN counter |->
                                 slot_token_prob(Model, alpha, s, counter[i].k)],
                             slot_token_prob(Model, alpha, s, UnseenToken))

\* A model fitted on five passwords and then trimmed to one token per slot
\* type: the DIGITS table lost the token 9 and keeps 1 with count 3, so with
\* alpha = 1/2 the two probabilities are 7/8 and 1/8.
C29_Witness ==
    /\ ops_done = 2
    /\ Trimmed
    /\ last_trim.top_n = 1
    /\ alpha = <<1, 2>>
    /\ total_templates = 5
    /\ SlotCounter(last_trim.before.slot_counts, "DIGITS")
          = <<[k |-> <<"1">>, n |-> 3], [k |-> <<"9">>, n |-> 1]>>
    /\ SlotCounter(slot_counts, "DIGITS") = <<[k |-> <<"1">>, n |-> 3]>>
    /\ slot_token_prob(Model, alpha, "DIGITS", <<"1">>) = <<7, 8>>
    /\ slot_token_prob(Model, alpha, "DIGITS", UnseenToken) = <<1, 8>>

(***************************************************************************)
(* crack.py: _try_passwords_worker and PasswordCracker.crack_file_fast.    *)
(***************************************************************************)
\* Longest password list given to crack_file_fast.
MaxCrackList == 3

\* Passwords of the lists: the empty string among them.
CrackPasswords == {<<>>, <<"a">>, <<"b">>}

CrackLists == UNION {[1..n -> CrackPasswords] : n \in 0..MaxCrackList}

ChunkSizes == {1, 2}

\* Processes of the pool.
WorkerCounts == {1, 2}

\* Target files: the suffix, whether the worker's imports succeed, and the
\* passwords with which the library decrypts the file.
CrackEnvs ==
    {[suffix |-> ".pdf", msoffcrypto |-> TRUE, pikepdf |-> TRUE, opens |-> {<<"b">>}],
     [suffix |-> ".pdf", msoffcrypto |-> TRUE, pikepdf |-> TRUE, opens |-> {<<>>}],
     [suffix |-> ".docx", msoffcrypto |-> TRUE, pikepdf |-> FALSE, opens |-> {<<"a">>, <<"b">>}],
     [suffix |-> ".docx", msoffcrypto |-> FALSE, pikepdf |-> TRUE, opens |-> {<<"a">>}],
     [suffix |-> ".txt", msoffcrypto |-> TRUE, pikepdf |-> TRUE, opens |-> {}]}

\* Python truth of a found password: neither None nor the empty string.
TruthyPw(pw) == pw # PyNone /\ pw # <<>>

\* The library the worker uses for the file decrypts it with p.
Opens(env, p) ==
    \/ env.suffix \in {".docx", ".pptx", ".xlsx"} /\ env.msoffcrypto /\ p \in env.opens
    \/ env.suffix = ".pdf" /\ env.pikepdf /\ p \in env.opens

\* _try_passwords_worker lines 42-69: the loop over the slice, from a count of
\* attempts; returns [pw, attempts].
RECURSIVE TryPasswords(_, _, _)
TryPasswords(env, password_slice, attempts) ==
    IF Len(password_slice) = 0 THEN [pw |-> PyNone, attempts |-> attempts]
    ELSE LET p == Head(password_slice)
             tried == attempts + 1
             rest == TryPasswords(env, Tail(password_slice), tried)
         IN IF env.suffix \in {".docx", ".pptx", ".xlsx"}
            THEN IF ~env.msoffcrypto THEN rest
                 ELSE IF p \in env.opens THEN [pw |-> p, attempts |-> tried]
                 ELSE rest
            ELSE IF env.suffix = ".pdf"
            THEN IF ~env.pikepdf THEN rest
                 ELSE IF p \in env.opens THEN [pw |-> p, attempts |-> tried]
                 ELSE rest
            ELSE [pw |-> PyNone, attempts |-> tried]

_try_passwords_worker(env, password_slice) == TryPasswords(env, password_slice, 0)

\* [passwords[i:i+chunk_size] for i in range(0, n, chunk_size)]
MakeChunks(passwords, chunk_size) ==
    [c \in 1..((Len(passwords) + chunk_size - 1) \div chunk_size) |->
        SubSeq(passwords, (c - 1) * chunk_size + 1, Min(c * chunk_size, Len(passwords)))]

\* PasswordCracker with a target file, before crack_file_fast is called.
InitCrack ==
    /\ vocab = {}
    /\ crack_env \in CrackEnvs
    /\ crack_call = NoCrackCall
    /\ chunks = <<>>
    /\ fut_state = <<>>
    /\ fut_seen = {}
    /\ total_attempts = 0
    /\ found_pw = PyNone
    /\ crack_ret = [found |-> PyNone, attempts |-> 0]
    /\ crack_pc = "ready"
    /\ IdleCodec
    /\ IdlePcfg
    /\ IdlePersist
    /\ IdleGen
    /\ IdleComb

\* crack_file_fast lines 119-135: the early return for an empty list, else the
\* chunks and one submitted future for each.
CrackFileFast ==
    /\ crack_pc = "ready"
    /\ \E passwords \in CrackLists, chunk_size \in ChunkSizes, max_workers \in WorkerCounts :
          /\ crack_call' = [passwords |-> passwords, chunk_size |-> chunk_size,
                            max_workers |-> max_workers]
          /\ IF Len(passwords) = 0
             THEN /\ crack_pc' = "returned"
                  /\ UNCHANGED <<chunks, fut_state>>
             ELSE /\ chunks' = MakeChunks(passwords, chunk_size)
                  /\ fut_state' = [c \in DOMAIN MakeChunks(passwords, chunk_size) |-> "pending"]
                  /\ crack_pc' = "looping"
    /\ UNCHANGED <<vocab, codecVars, pcfgVars, persistVars, genVars, combVars, crack_env,
                   fut_seen, total_attempts, found_pw, crack_ret>>

\* A process of the pool takes a queued future.
WorkerStart ==
    /\ crack_pc \in {"looping", "closing"}
    /\ \E f \in DOMAIN fut_state :
          /\ fut_state[f] = "pending"
          /\ Cardinality({g \in DOMAIN fut_state : fut_state[g] = "running"})
                < crack_call.max_workers
          /\ fut_state' = [fut_state EXCEPT ![f] = "running"]
    /\ UNCHANGED <<vocab, codecVars, pcfgVars, persistVars, genVars, combVars, crack_env,
                   crack_call, chunks, fut_seen, total_attempts, found_pw, crack_ret, crack_pc>>

\* _try_passwords_worker returns in its process.
WorkerFinish ==
    /\ crack_pc \in {"looping", "closing"}
    /\ \E f \in DOMAIN fut_state :
          /\ fut_state[f] = "running"
          /\ fut_state' = [fut_state EXCEPT ![f] = "finished"]
    /\ UNCHANGED <<vocab, codecVars, pcfgVars, persistVars, genVars, combVars, crack_env,
                   crack_call, chunks, fut_seen, total_attempts, found_pw, crack_ret, crack_pc>>

\* A worker process dies: the pool is broken and every future not yet done
\* fails with it.
WorkerCrash ==
    /\ crack_pc \in {"looping", "closing"}
    /\ \E f \in DOMAIN fut_state : fut_state[f] = "running"
    /\ fut_state' = [f \in DOMAIN fut_state |->
                        IF fut_state[f] \in {"pending", "running"} THEN "failed"
                        ELSE fut_state[f]]
    /\ UNCHANGED <<vocab, codecVars, pcfgVars, persistVars, genVars, combVars, crack_env,
                   crack_call, chunks, fut_seen, total_attempts, found_pw, crack_ret, crack_pc>>

\* fut.result() of lines 140-145: the worker's pair, or for a failed future
\* None with the size of its chunk.
FutureResult(f) ==
    IF fut_state[f] = "failed" THEN [pw |-> PyNone, attempts |-> Len(chunks[f])]
    ELSE _try_passwords_worker(crack_env, chunks[f])

\* One iteration of `for fut in as_completed(futures)` (lines 139-158): the
\* futures are yielded in the order they complete.
TakeCompleted ==
    /\ crack_pc = "looping"
    /\ \E f \in DOMAIN fut_state \ fut_seen :
          /\ fut_state[f] \in {"finished", "failed"}
          /\ LET r == FutureResult(f)
             IN /\ total_attempts' = total_attempts + r.attempts
                /\ fut_seen' = fut_seen \cup {f}
                /\ IF TruthyPw(r.pw)
                   THEN /\ found_pw' = r.pw
                        /\ fut_state' = [g \in DOMAIN fut_state |->
                                            IF fut_state[g] = "pending" THEN "cancelled"
                                            ELSE fut_state[g]]
                        /\ crack_pc' = "closing"
                   ELSE /\ UNCHANGED <<found_pw, fut_state>>
                        /\ crack_pc' = IF fut_seen \cup {f} = DOMAIN fut_state
                                       THEN "closing" ELSE "looping"
    /\ UNCHANGED <<vocab, codecVars, pcfgVars, persistVars, genVars, combVars, crack_env,
                   crack_call, chunks, crack_ret>>

\* Lines 159-166: leaving the `with` block waits for the futures still running,
\* then crack_file_fast returns (found, total_attempts, elapsed).
CrackReturn ==
    /\ crack_pc = "closing"
    /\ \A f \in DOMAIN fut_state : fut_state[f] \notin {"pending", "running"}
    /\ crack_ret' = [found |-> found_pw, attempts |-> total_attempts]
    /\ crack_pc' = "returned"
    /\ UNCHANGED <<vocab, codecVars, pcfgVars, persistVars, genVars, combVars, crack_env,
                   crack_call, chunks, fut_state, fut_seen, total_attempts, found_pw>>

NextCrack ==
    CrackFileFast \/ WorkerStart \/ WorkerFinish \/ WorkerCrash \/ TakeCompleted \/ CrackReturn

SpecCrack == InitCrack /\ [][NextCrack]_vars

(***************************************************************************)
(* Properties of the parallel cracker.                                     *)
(***************************************************************************)
\* crack_file_fast has returned and no worker process crashed.
ReturnedWithoutCrash ==
    /\ crack_pc = "returned"
    /\ \A f \in DOMAIN fut_state : fut_state[f] # "failed"

\* The returned password is non-None exactly when a password of the list
\* decrypts the file, it is one that does, and the attempts reported do not
\* exceed the length of the list.
ResultAsClaimed ==
    /\ crack_ret.found # PyNone
          <=> \E i \in DOMAIN crack_call.passwords : Opens(crack_env, crack_call.passwords[i])
    /\ crack_ret.found # PyNone =>
          /\ crack_ret.found \in Range(crack_call.passwords)
          /\ Opens(crack_env, crack_ret.found)
    /\ crack_ret.attempts <= Len(crack_call.passwords)

\* C30: for every order in which the worker futures complete, with no worker
\* crash, crack_file_fast returns a password if and only if some password of
\* the list verifies against the file, the password returned is one that
\* verified, and the total attempts do not exceed the number of passwords.
C30_CrackFindsIffOneVerifies == ReturnedWithoutCrash => ResultAsClaimed

\* The same for lists that do not hold the empty string.
C30_FindsIffNonEmptyVerifies ==
    (ReturnedWithoutCrash /\ <<>> \notin Range(crack_call.passwords)) => ResultAsClaimed

====
